---- MODULE Spec2Model ----
(***************************************************************************)
(* AI Tutor Orchestrator: the extraction / default-filling / routing /     *)
(* response-assembly pipeline of orchestrator.py and parameter_extractor.py *)
(* as a state machine.                                                     *)
(*                                                                         *)
(* Encoding of Python values:                                              *)
(*   Optional[T]   None is <<>>, a present value v is <<v>>                *)
(*   dict          {} is <<>>, a non-empty dict d is <<d>> (d a record)    *)
(*   str           an opaque TLA+ string where only equality and blankness *)
(*                 matter (topic, subject, concept); a sequence of parts   *)
(*                 where a prefix matters (messages, error texts); a       *)
(*                 sequence of one-character strings where the code looks  *)
(*                 inside the text (learning style, mastery summary)       *)
(*   float 0..1    confidence in tenths, 0..10                             *)
(***************************************************************************)
EXTENDS Integers, Sequences, FiniteSets, TLC

VARIABLES
    pc,              \* the node about to run, or where the request waits
    state,           \* the OrchestratorState of the request
    tool_client,     \* the class of self.tool_client
    llm_response,    \* what self.llm.invoke did
    extract_result,  \* what ParameterExtractor.extract did
    request,         \* the request of the tool call in flight
    calls,           \* the tool-client methods called, in order
    call_results,    \* what each finished call did
    visited,         \* the nodes run, in order
    returned         \* what orchestrate did

vars == <<pc, state, tool_client, llm_response, extract_result, request,
          calls, call_results, visited, returned>>

----------------------------------------------------------------------------
(* Optional values and Python truthiness *)

None == <<>>

Some(v) == <<v>>

\* bool(x) for an Optional[str]: None and "" are falsy
Truthy(x) == x # None /\ x[1] # ""

\* Python's  a or b
Or(a, b) == IF Truthy(a) THEN a ELSE b

----------------------------------------------------------------------------
(* models.py: enumerations and ranges *)

NOTE_MAKER == "note_maker"
FLASHCARD_GENERATOR == "flashcard_generator"
CONCEPT_EXPLAINER == "concept_explainer"
NONE == "none"

ToolSelection == {NOTE_MAKER, FLASHCARD_GENERATOR, CONCEPT_EXPLAINER, NONE}

NoteStyles == {"outline", "bullet_points", "narrative", "structured"}

Difficulties == {"easy", "medium", "hard"}

Depths == {"basic", "intermediate", "advanced", "comprehensive"}

MinFlashcards == 1

MaxFlashcards == 20

\* confidence: float = Field(..., ge=0.0, le=1.0), in tenths
MaxConfidence == 10

----------------------------------------------------------------------------
(* Bounds of the model and the inputs it enumerates *)

\* longest missing_parameters list the text-generation call answers with
MaxMissing == 2

MissingNames == {"topic", "count", "all"}

RECURSIVE SeqsUpTo(_, _)
SeqsUpTo(S, n) ==
    IF n = 0 THEN {<<>>}
    ELSE LET shorter == SeqsUpTo(S, n - 1)
         IN  shorter \cup {Append(s, x) : s \in shorter, x \in S}

MissingLists == SeqsUpTo(MissingNames, MaxMissing)

Topics == {None, Some(""), Some("derivatives")}

Subjects == {None, Some(""), Some("calculus")}

Concepts == {None, Some(""), Some("chain rule")}

Confidences == {0, 9}

Counts == {None, Some(MinFlashcards), Some(MaxFlashcards)}

\* learning-style summaries that mention "visual", character by character
VisualStyles ==
    { <<"V","i","s","u","a","l"," ","l","e","a","r","n","e","r">>,
      <<"L","i","k","e","s"," ","V","I","S","U","A","L","S">>,
      <<"v","i","s","u","a","l">> }

\* learning-style summaries that do not
OtherStyles ==
    { <<"A","u","d","i","t","o","r","y">>,
      <<"v","i","s"," ","u","a","l">>,
      <<"V","i","s","u","a">>,
      <<>> }

LearningStyles == VisualStyles \cup OtherStyles

\* mastery summaries, character by character, each with the level written in it
\* after "Level " (None: the summary has no such level)
MasterySamples ==
    { [text |-> <<"L","e","v","e","l"," ","0">>,
       level |-> Some(0)],
      [text |-> <<"L","e","v","e","l"," ","2">>,
       level |-> Some(2)],
      [text |-> <<"L","e","v","e","l"," ","3">>,
       level |-> Some(3)],
      [text |-> <<"N","o","w"," ","L","e","v","e","l"," ","4">>,
       level |-> Some(4)],
      [text |-> <<"L","e","v","e","l"," ","5">>,
       level |-> Some(5)],
      [text |-> <<"L","e","v","e","l"," ","6">>,
       level |-> Some(6)],
      [text |-> <<"L","e","v","e","l"," ","7">>,
       level |-> Some(7)],
      [text |-> <<"L","e","v","e","l"," ","1","0"," ","-"," ","e","x","p","e","r","t">>,
       level |-> Some(10)],
      [text |-> <<"L","e","v","e","l"," ","1",","," ","w","a","s"," ","L","e","v","e","l"," ","8">>,
       level |-> Some(1)],
      [text |-> <<"l","e","v","e","l"," ","9">>,
       level |-> None],
      [text |-> <<"L","e","v","e","l"," ","x">>,
       level |-> None],
      [text |-> <<>>,
       level |-> None] }

MasterySummaries == {m.text : m \in MasterySamples}

\* the student profiles of the requests (UserInfo: the two summaries the code reads)
Profiles ==
    { [learning_style_summary |-> <<"V","i","s","u","a","l"," ","l","e","a","r","n","e","r">>,
       mastery_level_summary  |-> <<"L","e","v","e","l"," ","2">>],
      [learning_style_summary |-> <<"A","u","d","i","t","o","r","y">>,
       mastery_level_summary  |-> <<"L","e","v","e","l"," ","1","0"," ","-"," ","e","x","p","e","r","t">>],
      [learning_style_summary |-> <<"L","i","k","e","s"," ","V","I","S","U","A","L","S">>,
       mastery_level_summary  |-> <<"l","e","v","e","l"," ","9">>] }

Messages == {"I need practice"}

Turn(r, c) == [role |-> r, content |-> c]

\* chat_history argument of orchestrate (None is the default)
Histories == {None, Some(<<Turn("user", "Can you help me with math?")>>)}

\* longest conversation the prompt and the requests are built from
MaxTurns == 7

\* turn i of a conversation: the student and the tutor alternate
TurnAt(i) == Turn(IF i % 2 = 1 THEN "user" ELSE "assistant", "turn " \o ToString(i))

\* the conversations of 0 to MaxTurns turns
LongHistories == { [i \in 1..n |-> TurnAt(i)] : n \in 0..MaxTurns }

----------------------------------------------------------------------------
(* models.py: ExtractedParameters *)

\* ExtractedParameters(...) with the field defaults of the class
ExtractedParameters(tool, conf, why, missing) ==
    [tool_needed        |-> tool,
     confidence         |-> conf,
     topic              |-> None,
     subject            |-> None,
     note_taking_style  |-> None,
     include_examples   |-> TRUE,
     include_analogies  |-> FALSE,
     flashcard_count    |-> None,
     difficulty         |-> None,
     concept_to_explain |-> None,
     desired_depth      |-> None,
     reasoning          |-> why,
     missing_parameters |-> missing]

Optional(S) == {None} \cup {Some(v) : v \in S}

\* pydantic validation of a JSON object against ExtractedParameters
SchemaValid(obj) ==
    /\ obj.tool_needed \in ToolSelection
    /\ obj.confidence \in 0..MaxConfidence
    /\ obj.note_taking_style \in Optional(NoteStyles)
    /\ obj.include_examples \in BOOLEAN
    /\ obj.include_analogies \in BOOLEAN
    /\ obj.flashcard_count \in Optional(MinFlashcards..MaxFlashcards)
    /\ obj.difficulty \in Optional(Difficulties)
    /\ obj.desired_depth \in Optional(Depths)

----------------------------------------------------------------------------
(* The answers of the text-generation call *)

Reasoning == <<"chosen from the message">>

\* the common part of a JSON object the model answers with
BaseObjects ==
    { [ExtractedParameters(t, c, Reasoning, m) EXCEPT !.topic = tp, !.subject = sb] :
        t \in {NOTE_MAKER}, c \in Confidences, m \in MissingLists,
        tp \in Topics, sb \in Subjects }

NoteObjects ==
    { [b EXCEPT !.note_taking_style = st, !.include_examples = ex,
                !.include_analogies = an] :
        b \in BaseObjects, st \in Optional(NoteStyles), ex \in BOOLEAN, an \in BOOLEAN }

FlashcardObjects ==
    { [b EXCEPT !.tool_needed = FLASHCARD_GENERATOR, !.flashcard_count = n,
                !.difficulty = d, !.include_examples = ex] :
        b \in BaseObjects, n \in Counts, d \in Optional(Difficulties), ex \in BOOLEAN }

ConceptObjects ==
    { [b EXCEPT !.tool_needed = CONCEPT_EXPLAINER, !.concept_to_explain = k,
                !.desired_depth = d] :
        b \in BaseObjects, k \in Concepts, d \in Optional(Depths) }

\* tool "none": every optional field unset, or every optional field set
NoToolObjects ==
    { [b EXCEPT !.tool_needed = NONE] : b \in BaseObjects }
    \cup
    { [b EXCEPT !.tool_needed = NONE, !.note_taking_style = Some("narrative"),
                !.include_examples = FALSE, !.include_analogies = TRUE,
                !.flashcard_count = Some(MaxFlashcards), !.difficulty = Some("hard"),
                !.concept_to_explain = Some("chain rule"),
                !.desired_depth = Some("comprehensive")] : b \in BaseObjects }

ValidObjects == NoteObjects \cup FlashcardObjects \cup ConceptObjects \cup NoToolObjects

SampleObject ==
    [ExtractedParameters(FLASHCARD_GENERATOR, 9, Reasoning, <<>>)
        EXCEPT !.topic = Some("derivatives")]

\* JSON objects that violate the schema
InvalidObjects ==
    { [SampleObject EXCEPT !.flashcard_count = Some(MinFlashcards - 1)],
      [SampleObject EXCEPT !.flashcard_count = Some(MaxFlashcards + 1)],
      [SampleObject EXCEPT !.confidence = MaxConfidence + 1],
      [SampleObject EXCEPT !.tool_needed = "quiz_maker"],
      [SampleObject EXCEPT !.difficulty = Some("extreme")] }

\* response.content: text that is no JSON at all, or a JSON object
Contents ==
    {[json |-> FALSE, obj |-> None]}
    \cup {[json |-> TRUE, obj |-> Some(o)] : o \in ValidObjects \cup InvalidObjects}

\* self.llm.invoke(prompt): raises, or returns a response with a content
LLMResponses ==
    {[kind |-> "raise", text |-> "API connection error", content |-> None]}
    \cup {[kind |-> "response", text |-> "", content |-> Some(c)] : c \in Contents}

----------------------------------------------------------------------------
(* The inputs the functions of parameter_extractor.py and the question
   generator of orchestrator.py are applied to on their own *)

\* every pairing of a learning-style summary with a mastery summary
AllProfiles ==
    { [learning_style_summary |-> ls, mastery_level_summary |-> ms] :
        ls \in LearningStyles, ms \in MasterySummaries }

\* an extraction result with every optional field unset, and one with every
\* optional field set
Unset(tool) ==
    [ExtractedParameters(tool, 9, Reasoning, <<>>) EXCEPT !.topic = Some("derivatives")]

AllSet(tool) ==
    [ExtractedParameters(tool, 9, Reasoning, <<"topic">>)
        EXCEPT !.subject = Some("calculus"), !.note_taking_style = Some("narrative"),
               !.include_examples = FALSE, !.include_analogies = TRUE,
               !.flashcard_count = Some(MaxFlashcards), !.difficulty = Some("hard"),
               !.concept_to_explain = Some("chain rule"),
               !.desired_depth = Some("comprehensive")]

\* an extraction result every tool request can be built from
Complete(tool) ==
    [AllSet(tool) EXCEPT !.topic = Some("derivatives"), !.missing_parameters = <<>>]

\* extraction results: the fields of the selected tool take every value, the
\* fields of the other tools are all unset or all set
FillInputs ==
    { [b EXCEPT !.note_taking_style = st, !.include_examples = ex,
                !.include_analogies = an] :
        b \in {Unset(NOTE_MAKER), AllSet(NOTE_MAKER)},
        st \in Optional(NoteStyles), ex \in BOOLEAN, an \in BOOLEAN }
    \cup
    { [b EXCEPT !.flashcard_count = n, !.difficulty = d] :
        b \in {Unset(FLASHCARD_GENERATOR), AllSet(FLASHCARD_GENERATOR)},
        n \in Counts, d \in Optional(Difficulties) }
    \cup
    { [b EXCEPT !.desired_depth = d] :
        b \in {Unset(CONCEPT_EXPLAINER), AllSet(CONCEPT_EXPLAINER)},
        d \in Optional(Depths) }
    \cup
    { [b EXCEPT !.topic = tp, !.concept_to_explain = k] :
        b \in {Unset(t) : t \in ToolSelection}, tp \in Topics, k \in Concepts }
    \cup
    { AllSet(NONE) }

\* counts and difficulties a FlashcardRequest is constructed with, in and out
\* of what the class declares
RequestCounts ==
    {None, Some(MinFlashcards - 1), Some(MinFlashcards), Some(MaxFlashcards \div 2),
     Some(MaxFlashcards), Some(MaxFlashcards + 1), Some(MaxFlashcards + 5)}

RequestDifficulties == {None, Some("easy"), Some("medium"), Some("hard"), Some("extreme")}

RequestInputs ==
    { [Unset(FLASHCARD_GENERATOR) EXCEPT !.flashcard_count = n, !.difficulty = d,
                                         !.subject = sb] :
        n \in RequestCounts, d \in RequestDifficulties, sb \in Subjects }

\* longest missing_parameters list the question generator is applied to
MaxAsked == 3

\* the four names the generator has a question for, and one it has none for
AskedNames == {"topic", "subject", "difficulty", "count", "all"}

AskedLists == SeqsUpTo(AskedNames, MaxAsked)

----------------------------------------------------------------------------
(* parameter_extractor.py *)

\* outcome of a call: a returned value, or a raised exception with its str()
Returned(v) == [raised |-> FALSE, value |-> Some(v), text |-> <<>>]

Raised(t) == [raised |-> TRUE, value |-> None, text |-> t]

\* self.output_parser.parse(content): the object when the text is JSON that
\* satisfies the schema, an exception otherwise
parse(content) ==
    IF ~content.json THEN Raised(<<"Invalid json output">>)
    ELSE IF ~SchemaValid(content.obj[1])
         THEN Raised(<<"validation error for ExtractedParameters">>)
         ELSE Returned(content.obj[1])

\* extract with no try block around the parse
extract_Propagating(response) ==
    IF response.kind = "raise" THEN Raised(<<response.text>>)
    ELSE parse(response.content[1])

\* extract with a fallback record that names nothing as missing
extract_EmptyMissing(response) ==
    IF response.kind = "raise" THEN Raised(<<response.text>>)
    ELSE LET parsed == parse(response.content[1])
         IN  IF ~parsed.raised THEN parsed
             ELSE Returned(ExtractedParameters(NONE, 0,
                      <<"Failed to parse LLM response: ">> \o parsed.text, <<>>))

\* ParameterExtractor.extract: the call of the model is outside the try block
extract(response) ==
    IF response.kind = "raise" THEN Raised(<<response.text>>)
    ELSE LET parsed == parse(response.content[1])
         IN  IF ~parsed.raised THEN parsed
             ELSE Returned(ExtractedParameters(NONE, 0,
                      <<"Failed to parse LLM response: ">> \o parsed.text, <<"all">>))

UpperCase == <<"A","B","C","D","E","F","G","H","I","J","K","L","M",
               "N","O","P","Q","R","S","T","U","V","W","X","Y","Z">>

LowerCase == <<"a","b","c","d","e","f","g","h","i","j","k","l","m",
               "n","o","p","q","r","s","t","u","v","w","x","y","z">>

\* str.lower()
Lower(s) ==
    [i \in DOMAIN s |->
        IF \E k \in DOMAIN UpperCase : UpperCase[k] = s[i]
        THEN LowerCase[CHOOSE k \in DOMAIN UpperCase : UpperCase[k] = s[i]]
        ELSE s[i]]

\* sub in s
Contains(sub, s) ==
    \E i \in 1..(Len(s) - Len(sub) + 1) : SubSeq(s, i, i + Len(sub) - 1) = sub

\* "visual" looked for without lower()
IsVisual_CaseSensitive(user_info) ==
    Contains(<<"v","i","s","u","a","l">>, user_info.learning_style_summary)

\* "visual" in user_info.learning_style_summary.lower()
IsVisual(user_info) ==
    Contains(<<"v","i","s","u","a","l">>, Lower(user_info.learning_style_summary))

Digits == <<"0","1","2","3","4","5","6","7","8","9">>

IsDigit(c) == \E k \in DOMAIN Digits : Digits[k] = c

DigitValue(c) == (CHOOSE k \in DOMAIN Digits : Digits[k] = c) - 1

\* int() of a run of digits
RECURSIVE int(_)
int(ds) ==
    IF ds = <<>> THEN 0
    ELSE 10 * int(SubSeq(ds, 1, Len(ds) - 1)) + DigitValue(ds[Len(ds)])

\* the longest run of digits of s that starts at position i (\d+ is greedy)
RECURSIVE DigitRun(_, _)
DigitRun(s, i) ==
    IF i <= Len(s) /\ IsDigit(s[i]) THEN <<s[i]>> \o DigitRun(s, i + 1) ELSE <<>>

LevelPrefix == <<"L","e","v","e","l"," ">>

\* positions where  Level (\d+)  matches
LevelMatches(s) ==
    { i \in 1..Len(s) :
        /\ i + Len(LevelPrefix) <= Len(s)
        /\ SubSeq(s, i, i + Len(LevelPrefix) - 1) = LevelPrefix
        /\ IsDigit(s[i + Len(LevelPrefix)]) }

DefaultMastery == 5

\* _extract_mastery_number with the pattern  Level (\d)
_extract_mastery_number_OneDigit(mastery_summary) ==
    IF LevelMatches(mastery_summary) # {}
    THEN LET i == CHOOSE m \in LevelMatches(mastery_summary) :
                     \A n \in LevelMatches(mastery_summary) : m <= n
         IN  int(<<mastery_summary[i + Len(LevelPrefix)]>>)
    ELSE DefaultMastery

\* ParameterExtractor._extract_mastery_number: re.search takes the first match
_extract_mastery_number(mastery_summary) ==
    IF LevelMatches(mastery_summary) # {}
    THEN LET i == CHOOSE m \in LevelMatches(mastery_summary) :
                     \A n \in LevelMatches(mastery_summary) : m <= n
         IN  int(DigitRun(mastery_summary, i + Len(LevelPrefix)))
    ELSE DefaultMastery

EasyUpTo == 3

MediumUpTo == 6

DefaultFlashcards == 5

\* the NOTE_MAKER branch with the style of a visual learner set even over a given one
NoteMakerDefaults_VisualOverwrites(extracted, user_info) ==
    IF IsVisual(user_info)
    THEN [extracted EXCEPT !.note_taking_style = Some("structured"),
                           !.include_examples = TRUE, !.include_analogies = TRUE]
    ELSE IF extracted.note_taking_style = None
         THEN [extracted EXCEPT !.note_taking_style = Some("outline")]
         ELSE extracted

\* validate_and_fill_defaults, the NOTE_MAKER branch
NoteMakerDefaults(extracted, user_info) ==
    LET styled ==
            IF extracted.note_taking_style = None
            THEN [extracted EXCEPT !.note_taking_style =
                     IF IsVisual(user_info) THEN Some("structured") ELSE Some("outline")]
            ELSE extracted
    IN  IF IsVisual(user_info)
        THEN [styled EXCEPT !.include_examples = TRUE, !.include_analogies = TRUE]
        ELSE styled

\* the FLASHCARD_GENERATOR branch with the count always reset to the default
FlashcardDefaults_AlwaysDefault(extracted, user_info) ==
    LET counted == [extracted EXCEPT !.flashcard_count = Some(DefaultFlashcards)]
        mastery_num == _extract_mastery_number(user_info.mastery_level_summary)
    IN  IF counted.difficulty = None
        THEN [counted EXCEPT !.difficulty =
                 IF mastery_num <= EasyUpTo THEN Some("easy")
                 ELSE IF mastery_num <= MediumUpTo THEN Some("medium")
                 ELSE Some("hard")]
        ELSE counted

\* validate_and_fill_defaults, the FLASHCARD_GENERATOR branch
\* (not flashcard_count: unset, or 0)
FlashcardDefaults(extracted, user_info) ==
    LET counted ==
            IF extracted.flashcard_count = None \/ extracted.flashcard_count = Some(0)
            THEN [extracted EXCEPT !.flashcard_count = Some(DefaultFlashcards)]
            ELSE extracted
        mastery_num == _extract_mastery_number(user_info.mastery_level_summary)
    IN  IF counted.difficulty = None
        THEN [counted EXCEPT !.difficulty =
                 IF mastery_num <= EasyUpTo THEN Some("easy")
                 ELSE IF mastery_num <= MediumUpTo THEN Some("medium")
                 ELSE Some("hard")]
        ELSE counted

\* the CONCEPT_EXPLAINER branch with the thresholds compared by < instead of <=
ConceptExplainerDefaults_Strict(extracted, user_info) ==
    LET mastery_num == _extract_mastery_number(user_info.mastery_level_summary)
    IN  IF extracted.desired_depth = None
        THEN [extracted EXCEPT !.desired_depth =
                 IF mastery_num < EasyUpTo THEN Some("basic")
                 ELSE IF mastery_num < MediumUpTo THEN Some("intermediate")
                 ELSE Some("advanced")]
        ELSE extracted

\* the CONCEPT_EXPLAINER branch that takes a depth of "advanced" one step further
\* for a student above the medium levels
ConceptExplainerDefaults_Deepening(extracted, user_info) ==
    LET mastery_num == _extract_mastery_number(user_info.mastery_level_summary)
    IN  IF extracted.desired_depth = None
        THEN [extracted EXCEPT !.desired_depth =
                 IF mastery_num <= EasyUpTo THEN Some("basic")
                 ELSE IF mastery_num <= MediumUpTo THEN Some("intermediate")
                 ELSE Some("advanced")]
        ELSE IF mastery_num > MediumUpTo /\ extracted.desired_depth = Some("advanced")
        THEN [extracted EXCEPT !.desired_depth = Some("comprehensive")]
        ELSE extracted

\* validate_and_fill_defaults, the CONCEPT_EXPLAINER branch
ConceptExplainerDefaults(extracted, user_info) ==
    LET mastery_num == _extract_mastery_number(user_info.mastery_level_summary)
    IN  IF extracted.desired_depth = None
        THEN [extracted EXCEPT !.desired_depth =
                 IF mastery_num <= EasyUpTo THEN Some("basic")
                 ELSE IF mastery_num <= MediumUpTo THEN Some("intermediate")
                 ELSE Some("advanced")]
        ELSE extracted

\* validate_and_fill_defaults with one more default: an unset subject taken from the topic
validate_and_fill_defaults_SubjectFromTopic(extracted, user_info) ==
    LET based == IF extracted.subject = None
                 THEN [extracted EXCEPT !.subject = extracted.topic]
                 ELSE extracted
    IN  IF based.tool_needed = NONE THEN based
        ELSE IF based.tool_needed = NOTE_MAKER
        THEN NoteMakerDefaults(based, user_info)
        ELSE IF based.tool_needed = FLASHCARD_GENERATOR
        THEN FlashcardDefaults(based, user_info)
        ELSE IF based.tool_needed = CONCEPT_EXPLAINER
        THEN ConceptExplainerDefaults(based, user_info)
        ELSE based

\* validate_and_fill_defaults with no early return and the last branch an else
validate_and_fill_defaults_NoEarlyReturn(extracted, user_info) ==
    IF extracted.tool_needed = NOTE_MAKER
    THEN NoteMakerDefaults(extracted, user_info)
    ELSE IF extracted.tool_needed = FLASHCARD_GENERATOR
    THEN FlashcardDefaults(extracted, user_info)
    ELSE ConceptExplainerDefaults(extracted, user_info)

\* ParameterExtractor.validate_and_fill_defaults
validate_and_fill_defaults(extracted, user_info) ==
    IF extracted.tool_needed = NONE THEN extracted
    ELSE IF extracted.tool_needed = NOTE_MAKER
    THEN NoteMakerDefaults(extracted, user_info)
    ELSE IF extracted.tool_needed = FLASHCARD_GENERATOR
    THEN FlashcardDefaults(extracted, user_info)
    ELSE IF extracted.tool_needed = CONCEPT_EXPLAINER
    THEN ConceptExplainerDefaults(extracted, user_info)
    ELSE extracted

\* chat_history[-5:]
ContextTurns == 5

\* msg.role.upper()
upper(role) ==
    CASE role = "user"      -> "USER"
      [] role = "assistant" -> "ASSISTANT"

\* the history lines taken from the start of the conversation, chat_history[:5]
history_text_FirstFive(chat_history) ==
    LET n == Len(chat_history)
        kept == SubSeq(chat_history, 1, IF n > ContextTurns THEN ContextTurns ELSE n)
    IN  [i \in DOMAIN kept |-> <<upper(kept[i].role), ": ", kept[i].content>>]

\* history_text: one line "ROLE: content" for each of chat_history[-5:]
history_text(chat_history) ==
    LET n == Len(chat_history)
        kept == SubSeq(chat_history, IF n > ContextTurns THEN n - ContextTurns + 1 ELSE 1, n)
    IN  [i \in DOMAIN kept |-> <<upper(kept[i].role), ": ", kept[i].content>>]

\* _build_extraction_prompt: the values the template is filled with
_build_extraction_prompt(message, user_info, chat_history) ==
    [learning_style |-> user_info.learning_style_summary,
     mastery_level  |-> user_info.mastery_level_summary,
     chat_history   |-> IF history_text(chat_history) # <<>>
                        THEN history_text(chat_history)
                        ELSE <<<<"No previous messages">>>>,
     message        |-> message]

----------------------------------------------------------------------------
(* models.py: the tool requests, validated at construction *)

IsStr(x) == x # None

NoteMakerRequest(user_info, chat_history, topic, subject, note_taking_style, include_examples, include_analogies) ==
    IF IsStr(topic) /\ IsStr(subject) /\ note_taking_style \in {Some(v) : v \in NoteStyles}
    THEN Returned([user_info         |-> user_info,
                   chat_history      |-> chat_history,
                   topic             |-> topic[1],
                   subject           |-> subject[1],
                   note_taking_style |-> note_taking_style[1],
                   include_examples  |-> include_examples,
                   include_analogies |-> include_analogies])
    ELSE Raised(<<"validation error for NoteMakerRequest">>)

\* a FlashcardRequest that brings a count outside the range to its nearest bound
FlashcardRequest_Clamping(user_info, topic, count, difficulty, subject, include_examples) ==
    IF /\ IsStr(topic) /\ IsStr(subject)
       /\ count # None
       /\ difficulty \in {Some(v) : v \in Difficulties}
    THEN Returned([user_info        |-> user_info,
                   topic            |-> topic[1],
                   count            |-> IF count[1] < MinFlashcards THEN MinFlashcards
                                        ELSE IF count[1] > MaxFlashcards THEN MaxFlashcards
                                        ELSE count[1],
                   difficulty       |-> difficulty[1],
                   subject          |-> subject[1],
                   include_examples |-> include_examples])
    ELSE Raised(<<"validation error for FlashcardRequest">>)

FlashcardRequest(user_info, topic, count, difficulty, subject, include_examples) ==
    IF /\ IsStr(topic) /\ IsStr(subject)
       /\ count \in {Some(n) : n \in MinFlashcards..MaxFlashcards}
       /\ difficulty \in {Some(v) : v \in Difficulties}
    THEN Returned([user_info        |-> user_info,
                   topic            |-> topic[1],
                   count            |-> count[1],
                   difficulty       |-> difficulty[1],
                   subject          |-> subject[1],
                   include_examples |-> include_examples])
    ELSE Raised(<<"validation error for FlashcardRequest">>)

ConceptExplainerRequest(user_info, chat_history, concept_to_explain, current_topic, desired_depth) ==
    IF /\ IsStr(concept_to_explain) /\ IsStr(current_topic)
       /\ desired_depth \in {Some(v) : v \in Depths}
    THEN Returned([user_info          |-> user_info,
                   chat_history       |-> chat_history,
                   concept_to_explain |-> concept_to_explain[1],
                   current_topic      |-> current_topic[1],
                   desired_depth      |-> desired_depth[1]])
    ELSE Raised(<<"validation error for ConceptExplainerRequest">>)

----------------------------------------------------------------------------
(* tools.py: the tool clients *)

Cards(n) == [i \in 1..n |-> i]

\* MockToolClient.call_note_maker
MockNoteMaker(req) ==
    Returned([topic             |-> req.topic,
              title             |-> <<"Study Notes: ", req.topic>>,
              examples          |-> IF req.include_examples THEN <<"Example 1">> ELSE <<>>,
              analogies         |-> IF req.include_analogies THEN <<"Analogy 1">> ELSE <<>>,
              note_taking_style |-> req.note_taking_style])

\* MockToolClient.call_flashcard_generator
MockFlashcardGenerator(req) ==
    Returned([flashcards |-> Cards(req.count),
              topic      |-> req.topic,
              difficulty |-> req.difficulty])

\* MockToolClient.call_concept_explainer
MockConceptExplainer(req) ==
    Returned([explanation      |-> <<req.desired_depth, req.concept_to_explain, req.current_topic>>,
              related_concepts |-> <<"Related concept A", "Related concept B", req.current_topic>>])

\* what makes a call of EducationalToolClient fail
Failures == {"Rate limit exceeded", "Network error: connection refused"}

\* EducationalToolClient.call_note_maker: a payload of the service, or ToolIntegrationError
RealNoteMaker(req) ==
    { Returned([topic |-> t, title |-> <<"Notes: ", t>>, examples |-> <<>>,
                analogies |-> <<>>, note_taking_style |-> req.note_taking_style]) :
        t \in {req.topic, "limits"} }
    \cup { Raised(<<"Note Maker failed: ", f>>) : f \in Failures }

\* EducationalToolClient.call_flashcard_generator
RealFlashcardGenerator(req) ==
    { Returned([flashcards |-> Cards(n), topic |-> req.topic, difficulty |-> req.difficulty]) :
        n \in {0, req.count} }
    \cup { Raised(<<"Flashcard Generator failed: ", f>>) : f \in Failures }

\* EducationalToolClient.call_concept_explainer
RealConceptExplainer(req) ==
    { Returned([explanation |-> <<"text">>, related_concepts |-> <<>>]) }
    \cup { Raised(<<"Concept Explainer failed: ", f>>) : f \in Failures }

ToolClients == {"MockToolClient", "EducationalToolClient"}

\* the outcomes a call can have with the client in use
ToolOutcomes(client, tool, req) ==
    IF client = "MockToolClient"
    THEN { IF tool = NOTE_MAKER THEN MockNoteMaker(req)
           ELSE IF tool = FLASHCARD_GENERATOR THEN MockFlashcardGenerator(req)
           ELSE MockConceptExplainer(req) }
    ELSE IF tool = NOTE_MAKER THEN RealNoteMaker(req)
    ELSE IF tool = FLASHCARD_GENERATOR THEN RealFlashcardGenerator(req)
    ELSE RealConceptExplainer(req)

----------------------------------------------------------------------------
(* orchestrator.py: the workflow state and its nodes *)

\* model_dump(): the fields as a dict
model_dump(obj) == Some(obj)

EmptyDict == <<>>

\* OrchestratorState before a request
BlankState ==
    [message                 |-> "",
     user_info               |-> None,
     chat_history            |-> <<>>,
     extracted_parameters    |-> None,
     tool_request            |-> None,
     tool_response           |-> None,
     final_response          |-> None,
     error                   |-> None,
     needs_clarification     |-> FALSE,
     clarification_questions |-> <<>>]

\* initial_state of orchestrate
initial_state(message, user_info, chat_history) ==
    [BlankState EXCEPT !.message = message,
                       !.user_info = Some(user_info),
                       !.chat_history = IF chat_history = None THEN <<>> ELSE chat_history[1]]

OrchestratorResponse(success, tool_used, extracted_parameters, tool_response, message, needs_clarification, clarification_questions) ==
    [success                 |-> success,
     tool_used               |-> tool_used,
     extracted_parameters    |-> extracted_parameters,
     tool_response           |-> tool_response,
     message                 |-> message,
     needs_clarification     |-> needs_clarification,
     clarification_questions |-> clarification_questions]

TopicQuestion == "What specific topic would you like to focus on?"

SubjectQuestion == "Which subject area does this relate to?"

DifficultyQuestion == "What difficulty level would you prefer? (easy, medium, or hard)"

CountQuestion == "How many flashcards would you like? (1-20)"

FallbackQuestion == "Could you provide more details about what you need?"

\* the questions of a missing_parameters list, each new one put in front
RECURSIVE QuestionsFor_Prepending(_)
QuestionsFor_Prepending(missing) ==
    IF missing = <<>> THEN <<>>
    ELSE QuestionsFor_Prepending(Tail(missing)) \o
         (IF Head(missing) = "topic" THEN <<TopicQuestion>>
          ELSE IF Head(missing) = "subject" THEN <<SubjectQuestion>>
          ELSE IF Head(missing) = "difficulty" THEN <<DifficultyQuestion>>
          ELSE IF Head(missing) = "count" THEN <<CountQuestion>>
          ELSE <<>>)

\* the loop of _generate_clarification_questions over missing_parameters
RECURSIVE QuestionsFor(_)
QuestionsFor(missing) ==
    IF missing = <<>> THEN <<>>
    ELSE (IF Head(missing) = "topic" THEN <<TopicQuestion>>
          ELSE IF Head(missing) = "subject" THEN <<SubjectQuestion>>
          ELSE IF Head(missing) = "difficulty" THEN <<DifficultyQuestion>>
          ELSE IF Head(missing) = "count" THEN <<CountQuestion>>
          ELSE <<>>) \o QuestionsFor(Tail(missing))

\* the question generator without its last resort: no question when no name matched
_generate_clarification_questions_NoFallback(extracted) ==
    QuestionsFor(extracted.missing_parameters)

_generate_clarification_questions(extracted) ==
    IF QuestionsFor(extracted.missing_parameters) # <<>>
    THEN QuestionsFor(extracted.missing_parameters)
    ELSE <<FallbackQuestion>>

\* analyze_message, given what self.llm.invoke did
analyze_message(st, response) ==
    LET extracted == extract(response)
    IN  IF extracted.raised
        THEN [st EXCEPT !.error = Some(<<"Failed to analyze message: ">> \o extracted.text)]
        ELSE [st EXCEPT !.extracted_parameters =
                 Some(validate_and_fill_defaults(extracted.value[1], st.user_info[1]))]

\* validate_parameters that also asks for clarification when nothing was extracted
validate_parameters_AskingOnError(st) ==
    IF st.extracted_parameters = None
    THEN [st EXCEPT !.error = Some(<<"No parameters extracted">>),
                    !.needs_clarification = TRUE,
                    !.clarification_questions = <<FallbackQuestion>>]
    ELSE IF st.extracted_parameters[1].missing_parameters # <<>>
         THEN [st EXCEPT !.needs_clarification = TRUE,
                         !.clarification_questions =
                             _generate_clarification_questions(st.extracted_parameters[1])]
         ELSE [st EXCEPT !.needs_clarification = FALSE]

validate_parameters(st) ==
    IF st.extracted_parameters = None
    THEN [st EXCEPT !.error = Some(<<"No parameters extracted">>)]
    ELSE IF st.extracted_parameters[1].missing_parameters # <<>>
         THEN [st EXCEPT !.needs_clarification = TRUE,
                         !.clarification_questions =
                             _generate_clarification_questions(st.extracted_parameters[1])]
         ELSE [st EXCEPT !.needs_clarification = FALSE]

\* route_after_validation with the tool looked at before the clarification flag
route_after_validation_ToolFirst(st) ==
    IF st.error # None THEN "error"
    ELSE IF st.extracted_parameters[1].tool_needed = NOTE_MAKER THEN "note_maker"
    ELSE IF st.extracted_parameters[1].tool_needed = FLASHCARD_GENERATOR
         THEN "flashcard_generator"
    ELSE IF st.extracted_parameters[1].tool_needed = CONCEPT_EXPLAINER
         THEN "concept_explainer"
    ELSE IF st.needs_clarification THEN "needs_clarification"
    ELSE "no_tool"

route_after_validation(st) ==
    IF st.error # None THEN "error"
    ELSE IF st.needs_clarification THEN "needs_clarification"
    ELSE IF st.extracted_parameters[1].tool_needed = NOTE_MAKER THEN "note_maker"
    ELSE IF st.extracted_parameters[1].tool_needed = FLASHCARD_GENERATOR
         THEN "flashcard_generator"
    ELSE IF st.extracted_parameters[1].tool_needed = CONCEPT_EXPLAINER
         THEN "concept_explainer"
    ELSE "no_tool"

\* add_conditional_edges with two targets exchanged
ConditionalEdge_Swapped(route) ==
    CASE route = "note_maker"          -> "execute_flashcard_generator"
      [] route = "flashcard_generator" -> "execute_note_maker"
      [] route = "concept_explainer"   -> "execute_concept_explainer"
      [] route = "no_tool"             -> "handle_no_tool"
      [] route = "needs_clarification" -> "format_response"
      [] route = "error"               -> "handle_error"

\* the mapping of add_conditional_edges
ConditionalEdge(route) ==
    CASE route = "note_maker"          -> "execute_note_maker"
      [] route = "flashcard_generator" -> "execute_flashcard_generator"
      [] route = "concept_explainer"   -> "execute_concept_explainer"
      [] route = "no_tool"             -> "handle_no_tool"
      [] route = "needs_clarification" -> "format_response"
      [] route = "error"               -> "handle_error"

\* the request each execution node builds
note_maker_request(st) ==
    LET extracted == st.extracted_parameters[1]
    IN  NoteMakerRequest(st.user_info[1], st.chat_history, extracted.topic,
                         Or(extracted.subject, Or(extracted.topic, Some("General"))),
                         extracted.note_taking_style, extracted.include_examples,
                         extracted.include_analogies)

\* the FlashcardRequest with the subject defaulted without a look at the topic
flashcard_request_NoTopicFallback(st) ==
    LET extracted == st.extracted_parameters[1]
    IN  FlashcardRequest(st.user_info[1], extracted.topic, extracted.flashcard_count,
                         extracted.difficulty,
                         Or(extracted.subject, Some("General")),
                         extracted.include_examples)

flashcard_request(st) ==
    LET extracted == st.extracted_parameters[1]
    IN  FlashcardRequest(st.user_info[1], extracted.topic, extracted.flashcard_count,
                         extracted.difficulty,
                         Or(extracted.subject, Or(extracted.topic, Some("General"))),
                         extracted.include_examples)

\* the ConceptExplainerRequest with the topic preferred to the concept
concept_explainer_request_TopicFirst(st) ==
    LET extracted == st.extracted_parameters[1]
    IN  ConceptExplainerRequest(st.user_info[1], st.chat_history,
                                Or(extracted.topic, extracted.concept_to_explain),
                                Or(extracted.subject, extracted.topic),
                                extracted.desired_depth)

concept_explainer_request(st) ==
    LET extracted == st.extracted_parameters[1]
    IN  ConceptExplainerRequest(st.user_info[1], st.chat_history,
                                Or(extracted.concept_to_explain, extracted.topic),
                                Or(extracted.subject, extracted.topic),
                                extracted.desired_depth)

\* an except branch that logs and sets no error
tool_failed_Swallowed(st, text) == st

\* an except branch that also records the failure as the request of the tool
tool_failed_Recording(st, text) ==
    [st EXCEPT !.error = Some(<<"Tool execution failed: ">> \o text),
               !.tool_request = Some([rejected |-> text])]

\* the except branch of an execution node
tool_failed(st, text) ==
    [st EXCEPT !.error = Some(<<"Tool execution failed: ">> \o text)]

\* the statements after a call that returned, with the subject of the request
\* written back into the extraction result
tool_succeeded_WritingBack(st, req, response) ==
    [st EXCEPT !.tool_request = model_dump(req), !.tool_response = model_dump(response),
               !.extracted_parameters =
                   IF "subject" \in DOMAIN req
                   THEN Some([st.extracted_parameters[1] EXCEPT !.subject = Some(req.subject)])
                   ELSE st.extracted_parameters]

\* the statements after a call that returned
tool_succeeded(st, req, response) ==
    [st EXCEPT !.tool_request = model_dump(req), !.tool_response = model_dump(response)]

NoToolPayload ==
    [message |-> "I'm here to help! Feel free to ask about concepts, request notes, or practice with flashcards."]

\* handle_no_tool that sets no tool_response
handle_no_tool_Silent(st) == st

handle_no_tool(st) == [st EXCEPT !.tool_response = Some(NoToolPayload)]

handle_error(st) == st

ErrorPrefix == "Sorry, something went wrong: "

ClarificationMessage == <<"I need a bit more information to help you better.">>

NoToolMessage == <<"I'm here to help! What would you like to learn about?">>

ConceptMessage ==
    <<"Here's an explanation of the concept you asked about. Let me know if you need more detail!">>

\* _generate_success_message; tool_response.get fails on None
\* _generate_success_message that counts the cards asked for by default, not the cards made
_generate_success_message_DefaultCount(tool_name, tool_response) ==
    IF tool_name = "note_maker" THEN
        IF tool_response = None THEN Raised(<<"'NoneType' object has no attribute 'get'">>)
        ELSE Returned(<<"I've created structured notes on **", tool_response[1].topic,
                        "** for you! Check out the sections below.">>)
    ELSE IF tool_name = "flashcard_generator" THEN
        IF tool_response = None THEN Raised(<<"'NoneType' object has no attribute 'get'">>)
        ELSE Returned(<<"I've generated **", ToString(DefaultFlashcards),
                        " flashcards** on ", tool_response[1].topic,
                        " to help you practice!">>)
    ELSE IF tool_name = "concept_explainer" THEN Returned(ConceptMessage)
    ELSE Returned(NoToolMessage)

_generate_success_message(tool_name, tool_response) ==
    IF tool_name = "note_maker" THEN
        IF tool_response = None THEN Raised(<<"'NoneType' object has no attribute 'get'">>)
        ELSE Returned(<<"I've created structured notes on **", tool_response[1].topic,
                        "** for you! Check out the sections below.">>)
    ELSE IF tool_name = "flashcard_generator" THEN
        IF tool_response = None THEN Raised(<<"'NoneType' object has no attribute 'get'">>)
        ELSE Returned(<<"I've generated **", ToString(Len(tool_response[1].flashcards)),
                        " flashcards** on ", tool_response[1].topic,
                        " to help you practice!">>)
    ELSE IF tool_name = "concept_explainer" THEN Returned(ConceptMessage)
    ELSE Returned(NoToolMessage)

\* an error branch that reports what was extracted and asked
error_response_Leaky(st) ==
    OrchestratorResponse(FALSE, "none",
                         IF st.extracted_parameters # None
                         THEN model_dump(st.extracted_parameters[1]) ELSE EmptyDict,
                         IF st.tool_response # None THEN st.tool_response ELSE EmptyDict,
                         <<ErrorPrefix>> \o st.error[1], FALSE, st.clarification_questions)

\* format_response, the branch of a set error
error_response(st) ==
    OrchestratorResponse(FALSE, "none", EmptyDict, EmptyDict,
                         <<ErrorPrefix>> \o st.error[1], FALSE, <<>>)

\* the branch of needs_clarification with the parameters left out, as in the error branch
clarification_response_Bare(st) ==
    OrchestratorResponse(FALSE, "none", EmptyDict, EmptyDict, ClarificationMessage, TRUE,
                         st.clarification_questions)

\* the branch of needs_clarification that names the tool the extraction selected
clarification_response_NamingTool(st) ==
    OrchestratorResponse(FALSE,
                         IF st.extracted_parameters # None
                         THEN st.extracted_parameters[1].tool_needed ELSE "none",
                         IF st.extracted_parameters # None
                         THEN model_dump(st.extracted_parameters[1]) ELSE EmptyDict,
                         EmptyDict, ClarificationMessage, TRUE, st.clarification_questions)

\* format_response, the branch of needs_clarification
clarification_response(st) ==
    OrchestratorResponse(FALSE, "none",
                         IF st.extracted_parameters # None
                         THEN model_dump(st.extracted_parameters[1]) ELSE EmptyDict,
                         EmptyDict, ClarificationMessage, TRUE, st.clarification_questions)

\* format_response, the success branch once the message is made
success_response(st, tool_name, message) ==
    OrchestratorResponse(TRUE, tool_name,
                         IF st.extracted_parameters # None
                         THEN model_dump(st.extracted_parameters[1]) ELSE EmptyDict,
                         IF st.tool_response # None THEN st.tool_response ELSE EmptyDict,
                         message, FALSE, <<>>)

\* format_response that empties the questions of the state once they are in the response
format_response_Consuming(st) ==
    IF st.error # None THEN
        Returned([st EXCEPT !.final_response = Some(error_response(st))])
    ELSE IF st.needs_clarification THEN
        Returned([st EXCEPT !.final_response = Some(clarification_response(st)),
                            !.clarification_questions = <<>>])
    ELSE
        LET tool_name == IF st.extracted_parameters # None
                         THEN st.extracted_parameters[1].tool_needed ELSE "none"
            message == _generate_success_message(tool_name, st.tool_response)
        IN  IF message.raised THEN message
            ELSE Returned([st EXCEPT !.final_response =
                              Some(success_response(st, tool_name, message.value[1]))])

\* format_response: the new state, or the exception that leaves the node
format_response(st) ==
    IF st.error # None THEN
        Returned([st EXCEPT !.final_response = Some(error_response(st))])
    ELSE IF st.needs_clarification THEN
        Returned([st EXCEPT !.final_response = Some(clarification_response(st))])
    ELSE
        LET tool_name == IF st.extracted_parameters # None
                         THEN st.extracted_parameters[1].tool_needed ELSE "none"
            message == _generate_success_message(tool_name, st.tool_response)
        IN  IF message.raised THEN message
            ELSE Returned([st EXCEPT !.final_response =
                              Some(success_response(st, tool_name, message.value[1]))])

----------------------------------------------------------------------------
(* The workflow of _build_workflow, one action per node; an execution node   *)
(* is two steps, up to its await and from it                                 *)

Init ==
    /\ pc = "idle"
    /\ tool_client \in ToolClients
    /\ state = BlankState
    /\ llm_response = None
    /\ extract_result = None
    /\ request = None
    /\ calls = <<>>
    /\ call_results = <<>>
    /\ visited = <<>>
    /\ returned = None

\* orchestrate, up to the start of the workflow at its entry point
Orchestrate ==
    /\ pc = "idle"
    /\ \E message \in Messages, user_info \in Profiles, chat_history \in Histories :
           state' = initial_state(message, user_info, chat_history)
    /\ pc' = "analyze_message"
    /\ UNCHANGED <<tool_client, llm_response, extract_result, request, calls,
                   call_results, visited, returned>>

\* analyze_message with an edge back to itself: the analysis is run again on
\* its own result
AnalyzeMessage_Looping ==
    /\ pc = "analyze_message"
    /\ \E response \in LLMResponses :
           /\ llm_response' = Some(response)
           /\ extract_result' = Some(extract(response))
           /\ state' = analyze_message(state, response)
    /\ visited' = Append(visited, "analyze_message")
    /\ pc' = "analyze_message"
    /\ UNCHANGED <<tool_client, request, calls, call_results, returned>>

AnalyzeMessage ==
    /\ pc = "analyze_message"
    /\ \E response \in LLMResponses :
           /\ llm_response' = Some(response)
           /\ extract_result' = Some(extract(response))
           /\ state' = analyze_message(state, response)
    /\ visited' = Append(visited, "analyze_message")
    /\ pc' = "validate_parameters"
    /\ UNCHANGED <<tool_client, request, calls, call_results, returned>>

\* validate_parameters and the conditional edge that leaves it
ValidateParameters ==
    /\ pc = "validate_parameters"
    /\ state' = validate_parameters(state)
    /\ visited' = Append(visited, "validate_parameters")
    /\ pc' = ConditionalEdge(route_after_validation(state'))
    /\ UNCHANGED <<tool_client, llm_response, extract_result, request, calls,
                   call_results, returned>>

\* an execution node that goes on to format_response without awaiting its call
Dispatch_Abandoning(node, tool, built) ==
    /\ pc = node
    /\ visited' = Append(visited, node)
    /\ IF built.raised
       THEN /\ state' = tool_failed(state, built.text)
            /\ UNCHANGED <<request, calls>>
       ELSE /\ request' = built.value
            /\ calls' = Append(calls, tool)
            /\ UNCHANGED state
    /\ pc' = "format_response"
    /\ UNCHANGED <<tool_client, llm_response, extract_result, call_results, returned>>

\* an execution node up to its await: build the request, call the client
Dispatch(node, tool, built) ==
    /\ pc = node
    /\ visited' = Append(visited, node)
    /\ IF built.raised
       THEN /\ state' = tool_failed(state, built.text)
            /\ pc' = "format_response"
            /\ UNCHANGED <<request, calls>>
       ELSE /\ request' = built.value
            /\ calls' = Append(calls, tool)
            /\ pc' = "await_" \o tool
            /\ UNCHANGED state
    /\ UNCHANGED <<tool_client, llm_response, extract_result, call_results, returned>>

\* an execution node whose except branch goes round again: a call that raised
\* sends the run back to the head of its node
Resume_Retrying(tool) ==
    /\ pc = "await_" \o tool
    /\ \E outcome \in ToolOutcomes(tool_client, tool, request[1]) :
           /\ call_results' = Append(call_results, outcome)
           /\ state' = IF outcome.raised
                       THEN state
                       ELSE tool_succeeded(state, request[1], outcome.value[1])
           /\ pc' = IF outcome.raised THEN "execute_" \o tool ELSE "format_response"
    /\ request' = None
    /\ UNCHANGED <<tool_client, llm_response, extract_result, calls, visited, returned>>

\* an execution node from its await: the call returned or raised
Resume(tool) ==
    /\ pc = "await_" \o tool
    /\ \E outcome \in ToolOutcomes(tool_client, tool, request[1]) :
           /\ call_results' = Append(call_results, outcome)
           /\ state' = IF outcome.raised
                       THEN tool_failed(state, outcome.text)
                       ELSE tool_succeeded(state, request[1], outcome.value[1])
    /\ request' = None
    /\ pc' = "format_response"
    /\ UNCHANGED <<tool_client, llm_response, extract_result, calls, visited, returned>>

ExecuteNoteMaker == Dispatch("execute_note_maker", NOTE_MAKER, note_maker_request(state))

ExecuteNoteMakerResume == Resume(NOTE_MAKER)

ExecuteFlashcardGenerator ==
    Dispatch("execute_flashcard_generator", FLASHCARD_GENERATOR, flashcard_request(state))

ExecuteFlashcardGeneratorResume == Resume(FLASHCARD_GENERATOR)

ExecuteConceptExplainer ==
    Dispatch("execute_concept_explainer", CONCEPT_EXPLAINER, concept_explainer_request(state))

ExecuteConceptExplainerResume == Resume(CONCEPT_EXPLAINER)

HandleNoTool ==
    /\ pc = "handle_no_tool"
    /\ state' = handle_no_tool(state)
    /\ visited' = Append(visited, "handle_no_tool")
    /\ pc' = "format_response"
    /\ UNCHANGED <<tool_client, llm_response, extract_result, request, calls,
                   call_results, returned>>

HandleError ==
    /\ pc = "handle_error"
    /\ state' = handle_error(state)
    /\ visited' = Append(visited, "handle_error")
    /\ pc' = "format_response"
    /\ UNCHANGED <<tool_client, llm_response, extract_result, request, calls,
                   call_results, returned>>

\* format_response, the edge to END, and the return of orchestrate
FormatResponse ==
    /\ pc = "format_response"
    /\ LET formatted == format_response(state)
       IN  IF formatted.raised
           THEN /\ returned' = Some([raised |-> TRUE, value |-> None, text |-> formatted.text])
                /\ UNCHANGED state
           ELSE /\ state' = formatted.value[1]
                /\ returned' = Some([raised |-> FALSE,
                                     value  |-> formatted.value[1].final_response,
                                     text   |-> <<>>])
    /\ visited' = Append(visited, "format_response")
    /\ pc' = "END"
    /\ UNCHANGED <<tool_client, llm_response, extract_result, request, calls, call_results>>

Next ==
    \/ Orchestrate
    \/ AnalyzeMessage
    \/ ValidateParameters
    \/ ExecuteNoteMaker
    \/ ExecuteNoteMakerResume
    \/ ExecuteFlashcardGenerator
    \/ ExecuteFlashcardGeneratorResume
    \/ ExecuteConceptExplainer
    \/ ExecuteConceptExplainerResume
    \/ HandleNoTool
    \/ HandleError
    \/ FormatResponse

Spec == Init /\ [][Next]_vars

\* the run under a runtime that keeps stepping the graph, and external calls
\* (text generation, tool) that eventually return or fail
SpecLive == Spec /\ WF_vars(Next)

----------------------------------------------------------------------------
(* A request followed by one more run of format_response on its final state *)

\* format_response(final_state), after the workflow has ended
FormatResponseAgain ==
    /\ pc = "END"
    /\ returned # None
    /\ ~returned[1].raised
    /\ LET formatted == format_response(state)
       IN  IF formatted.raised
           THEN /\ returned' = Some([raised |-> TRUE, value |-> None, text |-> formatted.text])
                /\ UNCHANGED state
           ELSE /\ state' = formatted.value[1]
                /\ returned' = Some([raised |-> FALSE,
                                     value  |-> formatted.value[1].final_response,
                                     text   |-> <<>>])
    /\ pc' = "formatted_again"
    /\ UNCHANGED <<tool_client, llm_response, extract_result, request, calls,
                   call_results, visited>>

NextAgain ==
    \/ Next
    \/ FormatResponseAgain

SpecAgain == Init /\ [][NextAgain]_vars

----------------------------------------------------------------------------
(* main.py: POST /orchestrate, from the return of orchestrate on *)

\* an endpoint that answers a response with success false by an HTTPException
orchestrate_endpoint_FailingOnError(result) ==
    IF result.raised
    THEN [status_code |-> 500, detail |-> <<"Orchestration failed: ">> \o result.text,
          body |-> None]
    ELSE IF result.value = None
    THEN [status_code |-> 500,
          detail |-> <<"Orchestration failed: ", "'NoneType' object has no attribute 'tool_used'">>,
          body |-> None]
    ELSE IF ~result.value[1].success /\ ~result.value[1].needs_clarification
    THEN [status_code |-> 500, detail |-> <<"Orchestration failed: ">> \o result.value[1].message,
          body |-> None]
    ELSE [status_code |-> 200, detail |-> <<>>, body |-> result.value]

\* orchestrate_endpoint, given what orchestrator.orchestrate did: the response
\* is returned (status 200), any exception becomes an HTTPException (status 500)
orchestrate_endpoint(result) ==
    IF result.raised
    THEN [status_code |-> 500, detail |-> <<"Orchestration failed: ">> \o result.text,
          body |-> None]
    ELSE IF result.value = None
    THEN [status_code |-> 500,
          detail |-> <<"Orchestration failed: ", "'NoneType' object has no attribute 'tool_used'">>,
          body |-> None]
    ELSE [status_code |-> 200, detail |-> <<>>, body |-> result.value]

\* the endpoint answers the client; returned is now the HTTP answer
OrchestrateEndpoint ==
    /\ pc = "END"
    /\ returned' = Some(orchestrate_endpoint(returned[1]))
    /\ pc' = "responded"
    /\ UNCHANGED <<state, tool_client, llm_response, extract_result, request, calls,
                   call_results, visited>>

NextEndpoint ==
    \/ Next
    \/ OrchestrateEndpoint

SpecEndpoint == Init /\ [][NextEndpoint]_vars

----------------------------------------------------------------------------
(* Two orchestrate runs on one orchestrator, interleaved at the nodes and at
   the awaits of the tool calls.  pc, state, llm_response, request,
   call_results and returned hold one value per run; tool_client is the one
   client both runs call, and calls is the log of that client: who called and
   who was answered, in order.  extract_result and visited are not used. *)

Runs == {"a", "b"}

\* the arguments of the two orchestrate calls
RunInputs ==
    [a |-> [message      |-> "I need practice",
            user_info    |-> [learning_style_summary |->
                                  <<"V","i","s","u","a","l"," ","l","e","a","r","n","e","r">>,
                              mastery_level_summary  |-> <<"L","e","v","e","l"," ","2">>],
            chat_history |-> None],
     b |-> [message      |-> "Explain it again",
            user_info    |-> [learning_style_summary |-> <<"A","u","d","i","t","o","r","y">>,
                              mastery_level_summary  |-> <<"L","e","v","e","l"," ","7">>],
            chat_history |-> Some(<<Turn("user", "Can you help me with math?")>>)]]

\* the answers of the text-generation call in these runs: it raises, answers
\* text that is no JSON, or one of five objects
ConcurrentObjects ==
    { SampleObject,
      [ExtractedParameters(NOTE_MAKER, 9, Reasoning, <<>>) EXCEPT !.topic = Some("derivatives")],
      ExtractedParameters(NOTE_MAKER, 9, Reasoning, <<"topic">>),
      ExtractedParameters(CONCEPT_EXPLAINER, 9, Reasoning, <<>>),
      ExtractedParameters(NONE, 9, Reasoning, <<>>) }

ConcurrentResponses ==
    { [kind |-> "raise", text |-> "API connection error", content |-> None],
      [kind |-> "response", text |-> "", content |-> Some([json |-> FALSE, obj |-> None])] }
    \cup { [kind |-> "response", text |-> "", content |-> Some([json |-> TRUE, obj |-> Some(o)])] :
             o \in ConcurrentObjects }

ToolOfNode(node) ==
    IF node = "execute_note_maker" THEN NOTE_MAKER
    ELSE IF node = "execute_flashcard_generator" THEN FLASHCARD_GENERATOR
    ELSE CONCEPT_EXPLAINER

\* the request an execution node builds
built_request(node, st) ==
    IF node = "execute_note_maker" THEN note_maker_request(st)
    ELSE IF node = "execute_flashcard_generator" THEN flashcard_request(st)
    ELSE concept_explainer_request(st)

\* orchestrate run alone, as a function of its arguments, of what the
\* text-generation call did and of what the tool call did (read only when a
\* call is made): the final state, or the exception that leaves format_response
orchestrate(message, user_info, chat_history, response, outcomes) ==
    LET analyzed  == analyze_message(initial_state(message, user_info, chat_history), response)
        validated == validate_parameters(analyzed)
        node      == ConditionalEdge(route_after_validation(validated))
        built     == built_request(node, validated)
        branched  ==
            IF node \in {"execute_note_maker", "execute_flashcard_generator",
                         "execute_concept_explainer"}
            THEN IF built.raised THEN tool_failed(validated, built.text)
                 ELSE IF outcomes[1].raised THEN tool_failed(validated, outcomes[1].text)
                 ELSE tool_succeeded(validated, built.value[1], outcomes[1].value[1])
            ELSE IF node = "handle_no_tool" THEN handle_no_tool(validated)
            ELSE IF node = "handle_error" THEN handle_error(validated)
            ELSE validated
    IN  format_response(branched)

\* one orchestrator state for all the runs: a new run replaces it
start_run_OnSelf(states, r, fresh) == [q \in Runs |-> fresh]

\* initial_state is a dict of the call: the run gets its own
start_run(states, r, fresh) == [states EXCEPT ![r] = fresh]

InitConcurrent ==
    /\ tool_client \in ToolClients
    /\ pc = [r \in Runs |-> "idle"]
    /\ state = [r \in Runs |-> BlankState]
    /\ llm_response = [r \in Runs |-> None]
    /\ request = [r \in Runs |-> None]
    /\ call_results = [r \in Runs |-> <<>>]
    /\ returned = [r \in Runs |-> None]
    /\ calls = <<>>
    /\ extract_result = None
    /\ visited = <<>>

ConcurrentOrchestrate(r) ==
    /\ pc[r] = "idle"
    /\ state' = start_run(state, r, initial_state(RunInputs[r].message,
                                                  RunInputs[r].user_info,
                                                  RunInputs[r].chat_history))
    /\ pc' = [pc EXCEPT ![r] = "analyze_message"]
    /\ UNCHANGED <<tool_client, llm_response, extract_result, request, calls,
                   call_results, visited, returned>>

ConcurrentAnalyzeMessage(r) ==
    /\ pc[r] = "analyze_message"
    /\ \E response \in ConcurrentResponses :
           /\ llm_response' = [llm_response EXCEPT ![r] = Some(response)]
           /\ state' = [state EXCEPT ![r] = analyze_message(state[r], response)]
    /\ pc' = [pc EXCEPT ![r] = "validate_parameters"]
    /\ UNCHANGED <<tool_client, extract_result, request, calls, call_results, visited,
                   returned>>

ConcurrentValidateParameters(r) ==
    /\ pc[r] = "validate_parameters"
    /\ state' = [state EXCEPT ![r] = validate_parameters(state[r])]
    /\ pc' = [pc EXCEPT ![r] = ConditionalEdge(route_after_validation(state'[r]))]
    /\ UNCHANGED <<tool_client, llm_response, extract_result, request, calls,
                   call_results, visited, returned>>

\* an execution node of run r up to its await
ConcurrentExecute(r) ==
    /\ pc[r] \in {"execute_note_maker", "execute_flashcard_generator",
                  "execute_concept_explainer"}
    /\ LET built == built_request(pc[r], state[r])
           tool  == ToolOfNode(pc[r])
       IN  IF built.raised
           THEN /\ state' = [state EXCEPT ![r] = tool_failed(state[r], built.text)]
                /\ pc' = [pc EXCEPT ![r] = "format_response"]
                /\ UNCHANGED <<request, calls>>
           ELSE /\ request' = [request EXCEPT ![r] = built.value]
                /\ calls' = Append(calls, [run |-> r, tool |-> tool, event |-> "called"])
                /\ pc' = [pc EXCEPT ![r] = "await_" \o tool]
                /\ UNCHANGED state
    /\ UNCHANGED <<tool_client, llm_response, extract_result, call_results, visited,
                   returned>>

\* an execution node of run r from its await
ConcurrentResume(r) ==
    \E tool \in {NOTE_MAKER, FLASHCARD_GENERATOR, CONCEPT_EXPLAINER} :
        /\ pc[r] = "await_" \o tool
        /\ \E outcome \in ToolOutcomes(tool_client, tool, request[r][1]) :
               /\ call_results' = [call_results EXCEPT ![r] = Append(@, outcome)]
               /\ state' = [state EXCEPT ![r] =
                               IF outcome.raised
                               THEN tool_failed(state[r], outcome.text)
                               ELSE tool_succeeded(state[r], request[r][1],
                                                   outcome.value[1])]
        /\ calls' = Append(calls, [run |-> r, tool |-> tool, event |-> "returned"])
        /\ request' = [request EXCEPT ![r] = None]
        /\ pc' = [pc EXCEPT ![r] = "format_response"]
        /\ UNCHANGED <<tool_client, llm_response, extract_result, visited, returned>>

ConcurrentHandleNoTool(r) ==
    /\ pc[r] = "handle_no_tool"
    /\ state' = [state EXCEPT ![r] = handle_no_tool(state[r])]
    /\ pc' = [pc EXCEPT ![r] = "format_response"]
    /\ UNCHANGED <<tool_client, llm_response, extract_result, request, calls,
                   call_results, visited, returned>>

ConcurrentHandleError(r) ==
    /\ pc[r] = "handle_error"
    /\ state' = [state EXCEPT ![r] = handle_error(state[r])]
    /\ pc' = [pc EXCEPT ![r] = "format_response"]
    /\ UNCHANGED <<tool_client, llm_response, extract_result, request, calls,
                   call_results, visited, returned>>

ConcurrentFormatResponse(r) ==
    /\ pc[r] = "format_response"
    /\ LET formatted == format_response(state[r])
       IN  IF formatted.raised
           THEN /\ returned' = [returned EXCEPT ![r] =
                                   Some([raised |-> TRUE, value |-> None,
                                         text |-> formatted.text])]
                /\ UNCHANGED state
           ELSE /\ state' = [state EXCEPT ![r] = formatted.value[1]]
                /\ returned' = [returned EXCEPT ![r] =
                                   Some([raised |-> FALSE,
                                         value  |-> formatted.value[1].final_response,
                                         text   |-> <<>>])]
    /\ pc' = [pc EXCEPT ![r] = "END"]
    /\ UNCHANGED <<tool_client, llm_response, extract_result, request, calls,
                   call_results, visited>>

NextConcurrent ==
    \E r \in Runs :
        \/ ConcurrentOrchestrate(r)
        \/ ConcurrentAnalyzeMessage(r)
        \/ ConcurrentValidateParameters(r)
        \/ ConcurrentExecute(r)
        \/ ConcurrentResume(r)
        \/ ConcurrentHandleNoTool(r)
        \/ ConcurrentHandleError(r)
        \/ ConcurrentFormatResponse(r)

SpecConcurrent == InitConcurrent /\ [][NextConcurrent]_vars

----------------------------------------------------------------------------
(* The functions on their own: validate_and_fill_defaults applied to an
   extraction result and a profile, and once more to its own result;
   _generate_clarification_questions applied to an extraction result;
   _build_extraction_prompt applied to conversations of up to MaxTurns turns;
   the execution nodes up to their call, on a state whose count and difficulty
   are any value or whose conversation has up to MaxTurns turns.
   extract_result keeps the argument, state the profile and what the function
   returned, request the prompt or the request that was built. *)

InitUnits ==
    /\ tool_client = "MockToolClient"
    /\ llm_response = None
    /\ request = None
    /\ calls = <<>>
    /\ call_results = <<>>
    /\ visited = <<>>
    /\ returned = None
    /\ \/ /\ pc = "fill"
          /\ \E extracted \in FillInputs, user_info \in AllProfiles :
                /\ extract_result = Some(Returned(extracted))
                /\ state = [BlankState EXCEPT !.user_info = Some(user_info)]
       \/ /\ pc = "execute_flashcard_generator"
          /\ \E extracted \in RequestInputs, user_info \in Profiles :
                /\ extract_result = Some(Returned(extracted))
                /\ state = [BlankState EXCEPT !.user_info = Some(user_info),
                                              !.extracted_parameters = Some(extracted)]
       \/ /\ pc = "ask"
          /\ \E missing \in AskedLists, tool \in {NONE, FLASHCARD_GENERATOR} :
                /\ extract_result =
                       Some(Returned(ExtractedParameters(tool, 9, Reasoning, missing)))
                /\ state = BlankState
       \/ /\ pc = "prompt"
          /\ extract_result = None
          /\ \E message \in Messages, user_info \in Profiles, chat_history \in LongHistories :
                state = initial_state(message, user_info, Some(chat_history))
       \/ \E tool \in {NOTE_MAKER, FLASHCARD_GENERATOR, CONCEPT_EXPLAINER} :
             /\ pc = "execute_" \o tool
             /\ extract_result = Some(Returned(Complete(tool)))
             /\ \E message \in Messages, user_info \in Profiles, chat_history \in LongHistories :
                   state = [initial_state(message, user_info, Some(chat_history))
                               EXCEPT !.extracted_parameters = Some(Complete(tool))]

\* extracted = extractor.validate_and_fill_defaults(extracted, user_info)
FillDefaults ==
    /\ pc = "fill"
    /\ state' = [state EXCEPT !.extracted_parameters =
                    Some(validate_and_fill_defaults(extract_result[1].value[1],
                                                    state.user_info[1]))]
    /\ pc' = "filled"
    /\ UNCHANGED <<tool_client, llm_response, extract_result, request, calls,
                   call_results, visited, returned>>

\* validate_and_fill_defaults applied once more, to its own result and the same profile
FillDefaultsAgain ==
    /\ pc = "filled"
    /\ state' = [state EXCEPT !.extracted_parameters =
                    Some(validate_and_fill_defaults(state.extracted_parameters[1],
                                                    state.user_info[1]))]
    /\ pc' = "refilled"
    /\ UNCHANGED <<tool_client, llm_response, extract_result, request, calls,
                   call_results, visited, returned>>

\* questions = self._generate_clarification_questions(extracted)
GenerateQuestions ==
    /\ pc = "ask"
    /\ state' = [state EXCEPT !.extracted_parameters = extract_result[1].value,
                              !.clarification_questions =
                                  _generate_clarification_questions(extract_result[1].value[1])]
    /\ pc' = "asked"
    /\ UNCHANGED <<tool_client, llm_response, extract_result, request, calls,
                   call_results, visited, returned>>

\* prompt = self._build_extraction_prompt(message, user_info, chat_history)
BuildExtractionPrompt ==
    /\ pc = "prompt"
    /\ request' = Some(_build_extraction_prompt(state.message, state.user_info[1],
                                                state.chat_history))
    /\ pc' = "prompted"
    /\ UNCHANGED <<state, tool_client, llm_response, extract_result, calls,
                   call_results, visited, returned>>

NextUnits ==
    \/ FillDefaults
    \/ FillDefaultsAgain
    \/ GenerateQuestions
    \/ BuildExtractionPrompt
    \/ ExecuteNoteMaker
    \/ ExecuteFlashcardGenerator
    \/ ExecuteConceptExplainer

SpecUnits == InitUnits /\ [][NextUnits]_vars

----------------------------------------------------------------------------
(* tools.py: one call of EducationalToolClient, POST attempt by POST attempt.
   pc is the position in call_* and _make_request, state the frame of
   _make_request (its retry_count), calls the log of the attempts with the
   answer each got, call_results what _make_request ended with, returned what
   the call_* method ended with. *)

\* max_retries: int = 3
DefaultMaxRetries == 3

\* the values of max_retries a client is constructed with (MockToolClient: 1)
MaxRetriesValues == 0 .. DefaultMaxRetries

\* the names the call_* methods put in front of a failure
ToolTitle(tool) ==
    CASE tool = NOTE_MAKER          -> "Note Maker"
      [] tool = FLASHCARD_GENERATOR -> "Flashcard Generator"
      [] tool = CONCEPT_EXPLAINER   -> "Concept Explainer"

\* what one POST can meet: a status with a body, a timeout, another transport error
StatusAnswer(status, body) == [kind |-> "status", status |-> status, body |-> body]

Answers ==
    { StatusAnswer(200, b) : b \in {"payload", "other json", "not json"} }
    \cup { StatusAnswer(400, b) : b \in {"error given", "no error key", "not json"} }
    \cup { StatusAnswer(s, "") : s \in {201, 302, 404, 429, 500, 503} }
    \cup { [kind |-> "timeout", status |-> 0, body |-> ""],
           [kind |-> "network", status |-> 0, body |-> "connection refused"] }

\* an exception of a given class
RaisedAs(type, text) == [raised |-> TRUE, value |-> None, text |-> text, type |-> type]

ToolIntegrationError(text) == RaisedAs("ToolIntegrationError", text)

\* what a frame of _make_request does with the answer to its POST
Retry == [retry |-> TRUE, outcome |-> None]

Finish(outcome) == [retry |-> FALSE, outcome |-> Some(outcome)]

\* _make_request whose timeout branch retries without looking at retry_count
_make_request_TimeoutUncounted(answer, retry_count, max_retries) ==
    IF answer.kind = "timeout"
    THEN Retry
    ELSE IF answer.kind = "network"
    THEN Finish(ToolIntegrationError(<<"Network error: ", answer.body>>))
    ELSE IF answer.status = 200
    THEN IF answer.body = "not json"
         THEN Finish(RaisedAs("JSONDecodeError", <<"Expecting value">>))
         ELSE Finish(Returned(answer.body))
    ELSE IF answer.status = 429
    THEN IF retry_count < max_retries THEN Retry
         ELSE Finish(ToolIntegrationError(<<"Rate limit exceeded">>))
    ELSE IF answer.status = 400
    THEN IF answer.body = "not json"
         THEN Finish(RaisedAs("JSONDecodeError", <<"Expecting value">>))
         ELSE Finish(ToolIntegrationError(
                  <<"Bad request: ",
                    IF answer.body = "error given" THEN "invalid topic" ELSE "Unknown">>))
    ELSE IF answer.status >= 500
    THEN IF retry_count < max_retries THEN Retry
         ELSE Finish(ToolIntegrationError(<<"Server error after retries">>))
    ELSE Finish(ToolIntegrationError(<<"Unexpected status code: ", ToString(answer.status)>>))

\* one frame of _make_request: the try block and its two except clauses
_make_request(answer, retry_count, max_retries) ==
    IF answer.kind = "timeout"
    THEN IF retry_count < max_retries THEN Retry
         ELSE Finish(ToolIntegrationError(<<"Request timeout after retries">>))
    ELSE IF answer.kind = "network"
    THEN Finish(ToolIntegrationError(<<"Network error: ", answer.body>>))
    ELSE IF answer.status = 200
    THEN IF answer.body = "not json"
         THEN Finish(RaisedAs("JSONDecodeError", <<"Expecting value">>))
         ELSE Finish(Returned(answer.body))
    ELSE IF answer.status = 429
    THEN IF retry_count < max_retries THEN Retry
         ELSE Finish(ToolIntegrationError(<<"Rate limit exceeded">>))
    ELSE IF answer.status = 400
    THEN IF answer.body = "not json"
         THEN Finish(RaisedAs("JSONDecodeError", <<"Expecting value">>))
         ELSE Finish(ToolIntegrationError(
                  <<"Bad request: ",
                    IF answer.body = "error given" THEN "invalid topic" ELSE "Unknown">>))
    ELSE IF answer.status >= 500
    THEN IF retry_count < max_retries THEN Retry
         ELSE Finish(ToolIntegrationError(<<"Server error after retries">>))
    ELSE Finish(ToolIntegrationError(<<"Unexpected status code: ", ToString(answer.status)>>))

\* XResponse(**response_data): the payload, or a validation error
parse_response(response_data) ==
    IF response_data = "payload" THEN Returned(response_data)
    ELSE RaisedAs("ValidationError", <<"validation error for the response">>)

\* a call_* method without its except clause
call_tool_Unguarded(tool, made) ==
    IF made.raised THEN made ELSE parse_response(made.value[1])

\* call_note_maker, call_flashcard_generator, call_concept_explainer from the
\* return of _make_request on: parse, and wrap every exception
call_tool(tool, made) ==
    LET result == IF made.raised THEN made ELSE parse_response(made.value[1])
    IN  IF result.raised
        THEN ToolIntegrationError(<<ToolTitle(tool), " failed: ">> \o result.text)
        ELSE result

InitClient ==
    /\ pc = "call"
    /\ tool_client \in {[max_retries |-> m] : m \in MaxRetriesValues}
    /\ request \in {Some([tool |-> t]) : t \in {NOTE_MAKER, FLASHCARD_GENERATOR, CONCEPT_EXPLAINER}}
    /\ state = [retry_count |-> 0]
    /\ calls = <<>>
    /\ call_results = <<>>
    /\ returned = None
    /\ llm_response = None
    /\ extract_result = None
    /\ visited = <<>>

\* call_*: the first call of _make_request, with retry_count = 0
CallTool ==
    /\ pc = "call"
    /\ state' = [retry_count |-> 0]
    /\ visited' = Append(visited, "call_" \o request[1].tool)
    /\ pc' = "post"
    /\ UNCHANGED <<tool_client, llm_response, extract_result, request, calls,
                   call_results, returned>>

\* one frame of _make_request: the POST and what follows from its answer
Post ==
    /\ pc = "post"
    /\ \E answer \in Answers :
           LET frame == _make_request(answer, state.retry_count, tool_client.max_retries)
           IN  /\ calls' = Append(calls, [answer |-> answer, retry_count |-> state.retry_count])
               /\ IF frame.retry
                  THEN /\ state' = [retry_count |-> state.retry_count + 1]
                       /\ pc' = "post"
                       /\ UNCHANGED call_results
                  ELSE /\ call_results' = <<frame.outcome[1]>>
                       /\ pc' = "made"
                       /\ UNCHANGED state
    /\ UNCHANGED <<tool_client, llm_response, extract_result, request, visited, returned>>

\* call_* from the return of _make_request on
CallReturn ==
    /\ pc = "made"
    /\ returned' = Some(call_tool(request[1].tool, call_results[1]))
    /\ pc' = "done"
    /\ UNCHANGED <<state, tool_client, llm_response, extract_result, request, calls,
                   call_results, visited>>

NextClient ==
    \/ CallTool
    \/ Post
    \/ CallReturn

SpecClient == InitClient /\ [][NextClient]_vars

----------------------------------------------------------------------------
(* Properties *)

Extracted == state.extracted_parameters[1]

PastAnalysis == pc \notin {"idle", "analyze_message"}

PastValidation == PastAnalysis /\ pc # "validate_parameters"

AtOrPastFormat == pc \in {"format_response", "END"}

Done == pc = "END"

ExecutionNodes ==
    {"execute_note_maker", "execute_flashcard_generator", "execute_concept_explainer"}

\* extract returned a record (it did not raise)
ExtractReturned == extract_result # None /\ ~extract_result[1].raised

\* the content of the model's answer did not parse against the schema
Malformed ==
    /\ llm_response # None
    /\ llm_response[1].kind = "response"
    /\ parse(llm_response[1].content[1]).raised

\* the response orchestrate returned
Response == returned[1].value[1]

\* C1: when the extraction result names missing parameters and no error is
\* set, the route chosen after validation is the clarification one whatever
\* tool_needed is, the request goes straight to format_response, and no tool
\* client method is called.
C1_MissingRoutesToClarification ==
    (PastValidation /\ state.error = None /\ state.extracted_parameters # None
        /\ Extracted.missing_parameters # <<>>)
    => /\ route_after_validation(state) = "needs_clarification"
       /\ state.needs_clarification
       /\ AtOrPastFormat
       /\ \A i \in DOMAIN visited : visited[i] \notin ExecutionNodes \cup {"handle_no_tool"}
       /\ calls = <<>>

C1_Witness ==
    /\ Done
    /\ state.error = None
    /\ Extracted.tool_needed = FLASHCARD_GENERATOR
    /\ Extracted.topic = Some("derivatives")
    /\ Extracted.missing_parameters = <<"count">>
    /\ Response.needs_clarification

\* the node that serves a tool
BranchOf(tool) ==
    CASE tool = NOTE_MAKER          -> "execute_note_maker"
      [] tool = FLASHCARD_GENERATOR -> "execute_flashcard_generator"
      [] tool = CONCEPT_EXPLAINER   -> "execute_concept_explainer"
      [] tool = NONE                -> "handle_no_tool"

\* C2: with no error and nothing missing, the route is decided by tool_needed
\* alone: the one branch that runs is the branch of tool_needed, a tool-client
\* call, if made, is the call of tool_needed, and the no-tool branch calls
\* nothing and records the fixed payload.
C2_DispatchOnTool ==
    (PastValidation /\ state.extracted_parameters # None
        /\ Extracted.missing_parameters = <<>>)
    => /\ pc \in {BranchOf(Extracted.tool_needed), "await_" \o Extracted.tool_needed,
                  "format_response", "END"}
       /\ \A i \in DOMAIN visited :
              visited[i] \in ExecutionNodes \cup {"handle_no_tool"}
                  => visited[i] = BranchOf(Extracted.tool_needed)
       /\ AtOrPastFormat =>
              Cardinality({i \in DOMAIN visited :
                              visited[i] \in ExecutionNodes \cup {"handle_no_tool"}}) = 1
       /\ Len(calls) <= 1
       /\ \A i \in DOMAIN calls : calls[i] = Extracted.tool_needed
       /\ Extracted.tool_needed = NONE =>
              /\ calls = <<>>
              /\ AtOrPastFormat => state.tool_response = Some(NoToolPayload)

C2_Witness ==
    /\ Done
    /\ state.extracted_parameters # None
    /\ Extracted.missing_parameters = <<>>
    /\ Extracted.tool_needed = CONCEPT_EXPLAINER
    /\ calls = <<CONCEPT_EXPLAINER>>
    /\ visited[3] = "execute_concept_explainer"

\* C3: orchestrate does not raise and returns a response, whatever the
\* text-generation call and the tool call did; and before the end some step
\* of the workflow can always be taken.
C3_AlwaysAResponse ==
    /\ Done => /\ returned # None
               /\ ~returned[1].raised
               /\ returned[1].value # None
               /\ returned[1].value = state.final_response
    /\ ~Done => returned = None /\ ENABLED Next

C3_Witness ==
    /\ Done
    /\ call_results # <<>>
    /\ call_results[1].raised
    /\ Response.success = FALSE

\* the one tool call of the request raised
ToolCallFailed == call_results # <<>> /\ call_results[Len(call_results)].raised

\* C4: when the call of any of the three tools fails, the response is the
\* error response: success false, tool_used "none", a message that starts with
\* "Sorry, something went wrong: ", empty extracted_parameters and
\* tool_response, needs_clarification false and no clarification questions.
C4_ToolFailureIsErrorResponse ==
    (Done /\ ToolCallFailed)
    => /\ Response.success = FALSE
       /\ Response.tool_used = "none"
       /\ Head(Response.message) = ErrorPrefix
       /\ Response.extracted_parameters = EmptyDict
       /\ Response.tool_response = EmptyDict
       /\ Response.needs_clarification = FALSE
       /\ Response.clarification_questions = <<>>

C4_Witness ==
    /\ Done
    /\ ToolCallFailed
    /\ calls = <<FLASHCARD_GENERATOR>>
    /\ Response.message = <<ErrorPrefix, "Tool execution failed: ",
                            "Flashcard Generator failed: ",
                            "Network error: connection refused">>

\* C5: for a model output that does not parse against the schema, extract
\* returns (does not raise) a record with tool_needed "none", confidence 0.0
\* and missing_parameters ["all"].
C5_MalformedGivesFallback ==
    Malformed
    => /\ ExtractReturned
       /\ extract_result[1].value[1].tool_needed = NONE
       /\ extract_result[1].value[1].confidence = 0
       /\ extract_result[1].value[1].missing_parameters = <<"all">>

C5_Witness ==
    /\ Malformed
    /\ llm_response[1].content[1].json
    /\ llm_response[1].content[1].obj[1].flashcard_count = Some(MaxFlashcards + 1)
    /\ ExtractReturned
    /\ extract_result[1].value[1].reasoning =
           <<"Failed to parse LLM response: ", "validation error for ExtractedParameters">>

\* the record extract falls back to
IsFallback(rec) ==
    /\ rec.tool_needed = NONE
    /\ rec.confidence = 0
    /\ rec.missing_parameters = <<"all">>

\* C6: extract does not fail outward: when the text-generation call raises,
\* extract returns the fallback record instead of raising.
C6_ExtractNeverRaises ==
    extract_result # None
    => /\ ~extract_result[1].raised
       /\ llm_response[1].kind = "raise" => IsFallback(extract_result[1].value[1])

\* C7: a model output that does not parse is not reported as an error: the
\* error of the state stays unset and the response is not the error response.
C7_MalformedIsNotAnError ==
    Malformed
    => /\ state.error = None
       /\ Done => /\ ~returned[1].raised
                  /\ Head(Response.message) # ErrorPrefix

C7_Witness ==
    /\ Done
    /\ Malformed
    /\ ~llm_response[1].content[1].json
    /\ Response.message = ClarificationMessage

\* C8: with MockToolClient, whose calls do not fail, every response has
\* success true or needs_clarification true, whatever record extract returned.
C8_MockSucceedsOrAsks ==
    (Done /\ tool_client = "MockToolClient" /\ ExtractReturned)
    => Response.success \/ Response.needs_clarification

\* the parameters the request of a tool requires
RequiredSet(extracted) ==
    CASE extracted.tool_needed = NOTE_MAKER ->
             extracted.topic # None /\ extracted.note_taking_style # None
      [] extracted.tool_needed = FLASHCARD_GENERATOR ->
             /\ extracted.topic # None
             /\ extracted.flashcard_count # None
             /\ extracted.difficulty # None
      [] extracted.tool_needed = CONCEPT_EXPLAINER ->
             /\ Or(extracted.concept_to_explain, extracted.topic) # None
             /\ Or(extracted.subject, extracted.topic) # None
             /\ extracted.desired_depth # None
      [] OTHER -> TRUE

\* C9: when an execution branch is entered, every required field of the
\* request of its tool is set, so that no request is built with one unset.
C9_BranchHasRequiredFields ==
    /\ pc \in ExecutionNodes => RequiredSet(Extracted)
    /\ pc = "execute_note_maker" => ~note_maker_request(state).raised
    /\ pc = "execute_flashcard_generator" => ~flashcard_request(state).raised
    /\ pc = "execute_concept_explainer" => ~concept_explainer_request(state).raised

\* C10: for a record with tool_needed "none", validate_and_fill_defaults
\* returns the record with every field as it was, for every profile, also
\* when parameters are missing or optional fields are unset.
C10_NoToolFillIsIdentity ==
    (PastAnalysis /\ ExtractReturned /\ extract_result[1].value[1].tool_needed = NONE)
    => /\ validate_and_fill_defaults(extract_result[1].value[1], state.user_info[1])
              = extract_result[1].value[1]
       /\ state.extracted_parameters = extract_result[1].value

C10_Witness ==
    /\ PastAnalysis
    /\ ExtractReturned
    /\ extract_result[1].value[1].tool_needed = NONE
    /\ extract_result[1].value[1].reasoning = Reasoning
    /\ extract_result[1].value[1].missing_parameters = <<"topic", "count">>
    /\ extract_result[1].value[1].desired_depth = None
    /\ extract_result[1].value[1].flashcard_count = None
    /\ IsVisual(state.user_info[1])
    /\ state.extracted_parameters = extract_result[1].value

----------------------------------------------------------------------------
(* validate_and_fill_defaults on its own (SpecUnits) *)

\* validate_and_fill_defaults has returned
Filled == pc = "filled"

\* its argument, its result and the profile it was given
FillArg == extract_result[1].value[1]

FillResult == state.extracted_parameters[1]

FillProfile == state.user_info[1]

\* C11: for tool note_maker and a learning-style summary that contains
\* "visual" in any letter case, the result has include_examples and
\* include_analogies both true whatever they were; for a summary without
\* "visual" both flags are what they were.
C11_VisualSetsBothFlags ==
    (Filled /\ FillArg.tool_needed = NOTE_MAKER) =>
        IF FillProfile.learning_style_summary \in VisualStyles
        THEN FillResult.include_examples /\ FillResult.include_analogies
        ELSE /\ FillResult.include_examples = FillArg.include_examples
             /\ FillResult.include_analogies = FillArg.include_analogies

C11_Witness ==
    /\ Filled
    /\ FillArg.tool_needed = NOTE_MAKER
    /\ FillProfile.learning_style_summary =
           <<"L","i","k","e","s"," ","V","I","S","U","A","L","S">>
    /\ ~FillArg.include_examples
    /\ ~FillArg.include_analogies
    /\ FillResult.include_examples
    /\ FillResult.include_analogies

\* the mastery number of a summary: the level written in it, 5 when none is
WrittenLevel(summary) ==
    LET sample == CHOOSE m \in MasterySamples : m.text = summary
    IN  IF sample.level = None THEN 5 ELSE sample.level[1]

\* C12: for tool flashcard_generator with difficulty unset, the result's
\* difficulty follows the mastery number M of the profile: easy for M <= 3,
\* medium for 4 <= M <= 6, hard for M >= 7, with M = 5 when the summary has no
\* "Level <int>"; a difficulty already set is the result's difficulty.
C12_DifficultyFromMastery ==
    (Filled /\ FillArg.tool_needed = FLASHCARD_GENERATOR) =>
        LET M == WrittenLevel(FillProfile.mastery_level_summary)
        IN  IF FillArg.difficulty = None
            THEN /\ M <= 3 => FillResult.difficulty = Some("easy")
                 /\ (4 <= M /\ M <= 6) => FillResult.difficulty = Some("medium")
                 /\ M >= 7 => FillResult.difficulty = Some("hard")
            ELSE FillResult.difficulty = FillArg.difficulty

C12_Witness ==
    /\ Filled
    /\ FillArg.tool_needed = FLASHCARD_GENERATOR
    /\ FillArg.difficulty = None
    /\ FillProfile.mastery_level_summary =
           <<"L","e","v","e","l"," ","1","0"," ","-"," ","e","x","p","e","r","t">>
    /\ FillResult.difficulty = Some("hard")

\* C13: for tool concept_explainer with desired_depth unset, the result's depth
\* follows the same thresholds: basic for M <= 3, intermediate for 4 <= M <= 6,
\* advanced for M >= 7; it is never "comprehensive" then, and a depth already
\* set is the result's depth.
C13_DepthFromMastery ==
    (Filled /\ FillArg.tool_needed = CONCEPT_EXPLAINER) =>
        LET M == WrittenLevel(FillProfile.mastery_level_summary)
        IN  IF FillArg.desired_depth = None
            THEN /\ M <= 3 => FillResult.desired_depth = Some("basic")
                 /\ (4 <= M /\ M <= 6) => FillResult.desired_depth = Some("intermediate")
                 /\ M >= 7 => FillResult.desired_depth = Some("advanced")
                 /\ FillResult.desired_depth # Some("comprehensive")
            ELSE FillResult.desired_depth = FillArg.desired_depth

C13_Witness ==
    /\ Filled
    /\ FillArg.tool_needed = CONCEPT_EXPLAINER
    /\ FillArg.desired_depth = None
    /\ FillProfile.mastery_level_summary = <<"L","e","v","e","l"," ","3">>
    /\ FillResult.desired_depth = Some("basic")

\* C14: for tool note_maker with the note style unset, the result's style is
\* "structured" when the learning-style summary contains "visual" in any letter
\* case and "outline" otherwise; a style already set is the result's style, for
\* a visual learner too.
C14_StyleFromLearningStyle ==
    (Filled /\ FillArg.tool_needed = NOTE_MAKER) =>
        IF FillArg.note_taking_style # None
        THEN FillResult.note_taking_style = FillArg.note_taking_style
        ELSE IF FillProfile.learning_style_summary \in VisualStyles
             THEN FillResult.note_taking_style = Some("structured")
             ELSE FillResult.note_taking_style = Some("outline")

C14_Witness ==
    /\ Filled
    /\ FillArg.tool_needed = NOTE_MAKER
    /\ FillArg.note_taking_style = Some("bullet_points")
    /\ FillProfile.learning_style_summary \in VisualStyles
    /\ FillResult.note_taking_style = Some("bullet_points")
    /\ FillResult # FillArg

\* C15: for tool flashcard_generator the result's flashcard_count is 5 when the
\* count was unset, and the count that was set (1 to 20) otherwise.
C15_CountDefault ==
    (Filled /\ FillArg.tool_needed = FLASHCARD_GENERATOR) =>
        IF FillArg.flashcard_count = None
        THEN FillResult.flashcard_count = Some(5)
        ELSE FillResult.flashcard_count = FillArg.flashcard_count

C15_Witness ==
    /\ Filled
    /\ FillArg.tool_needed = FLASHCARD_GENERATOR
    /\ FillArg.flashcard_count = Some(MaxFlashcards)
    /\ FillArg.difficulty = None
    /\ FillResult.flashcard_count = Some(MaxFlashcards)
    /\ FillResult.difficulty # None

\* the fields of an extraction result that belong to a tool
OwnFields(tool) ==
    CASE tool = NOTE_MAKER -> {"note_taking_style", "include_examples", "include_analogies"}
      [] tool = FLASHCARD_GENERATOR -> {"flashcard_count", "difficulty"}
      [] tool = CONCEPT_EXPLAINER -> {"desired_depth"}
      [] OTHER -> {}

\* C16: validate_and_fill_defaults leaves tool_needed, confidence, reasoning,
\* missing_parameters, topic, subject and concept_to_explain as they were, and
\* every field that belongs to a tool other than the selected one too.
C16_FillChangesOwnFieldsOnly ==
    Filled =>
        \A f \in DOMAIN FillArg :
            f \notin OwnFields(FillArg.tool_needed) => FillResult[f] = FillArg[f]

C16_Witness ==
    /\ Filled
    /\ FillArg.tool_needed = FLASHCARD_GENERATOR
    /\ FillArg.flashcard_count = None
    /\ FillArg.difficulty = None
    /\ FillArg.subject = Some("calculus")
    /\ FillArg.note_taking_style = Some("narrative")
    /\ FillArg.desired_depth = Some("comprehensive")
    /\ ~FillArg.include_examples
    /\ FillResult.flashcard_count # None
    /\ FillResult.difficulty # None
    /\ FillResult.note_taking_style = Some("narrative")
    /\ ~FillResult.include_examples

\* C17: after validate_and_fill_defaults has returned for a tool other than
\* "none", every parameter the request of the selected tool requires is set,
\* the topic (or the concept and the current topic of the explainer) included.
C17_FillSetsEveryRequired ==
    (Filled /\ FillArg.tool_needed # NONE) => RequiredSet(FillResult)

----------------------------------------------------------------------------
(* _generate_clarification_questions on its own (SpecUnits), and the
   clarification and no-tool outcomes of a request (Spec) *)

\* _generate_clarification_questions has returned
Asked == pc = "asked"

\* the names that have a question, each with its question
QuestionOf ==
    [topic      |-> TopicQuestion,
     subject    |-> SubjectQuestion,
     difficulty |-> DifficultyQuestion,
     count      |-> CountQuestion]

HasQuestion(name) == name \in DOMAIN QuestionOf

\* the questions of the names of a list that have one, in the order of the list
QuestionImage(missing) ==
    LET known == SelectSeq(missing, HasQuestion)
    IN  [i \in 1..Len(known) |-> QuestionOf[known[i]]]

\* C18: the questions generated for an extraction result are the questions of
\* the names of missing_parameters that have one (topic, subject, difficulty,
\* count), one per occurrence and in the same order; names without a question
\* add nothing; when no question is left the list is the one fallback
\* question, so it is never empty; ["topic", "count"] gives the topic question
\* followed by the flashcard-count question.
C18_QuestionsFollowMissing ==
    Asked =>
        LET missing == Extracted.missing_parameters
            questions == state.clarification_questions
        IN  /\ questions = IF QuestionImage(missing) = <<>>
                           THEN <<"Could you provide more details about what you need?">>
                           ELSE QuestionImage(missing)
            /\ questions # <<>>
            /\ missing = <<"topic", "count">> =>
                   questions = <<"What specific topic would you like to focus on?",
                                 "How many flashcards would you like? (1-20)">>

C18_Witness ==
    /\ Asked
    /\ Extracted.missing_parameters = <<"count", "all", "count">>
    /\ state.clarification_questions = <<CountQuestion, CountQuestion>>

\* orchestrate returned on the clarification branch of format_response
ClarificationOutcome == Done /\ state.error = None /\ state.needs_clarification

\* C19: in the clarification outcome the response has success false, tool_used
\* "none", extracted_parameters equal to the dump of the extraction result
\* after the defaults were filled, an empty tool_response, the fixed message,
\* needs_clarification true, and the questions generated at validation.
C19_ClarificationResponse ==
    ClarificationOutcome =>
        /\ ~returned[1].raised
        /\ ~Response.success
        /\ Response.tool_used = "none"
        /\ Response.extracted_parameters =
               Some(validate_and_fill_defaults(extract_result[1].value[1],
                                               state.user_info[1]))
        /\ Response.tool_response = <<>>
        /\ Response.message = <<"I need a bit more information to help you better.">>
        /\ Response.needs_clarification
        /\ Response.clarification_questions = state.clarification_questions
        /\ Response.clarification_questions = QuestionImage(Extracted.missing_parameters)
               \/ /\ QuestionImage(Extracted.missing_parameters) = <<>>
                  /\ Response.clarification_questions = <<FallbackQuestion>>

C19_Witness ==
    /\ ClarificationOutcome
    /\ extract_result[1].value[1].tool_needed = FLASHCARD_GENERATOR
    /\ extract_result[1].value[1].flashcard_count = None
    /\ extract_result[1].value[1].topic = None
    /\ Response.extracted_parameters[1].flashcard_count = Some(DefaultFlashcards)
    /\ Response.extracted_parameters[1].missing_parameters = <<"topic", "count">>
    /\ Response.clarification_questions = <<TopicQuestion, CountQuestion>>

\* extract answered tool "none" with nothing missing
NoToolAnswer ==
    /\ ExtractReturned
    /\ extract_result[1].value[1].tool_needed = NONE
    /\ extract_result[1].value[1].missing_parameters = <<>>

\* C20: for an extraction result with tool "none" and no missing parameters
\* the final response has success true, tool_used "none", needs_clarification
\* false, the fixed informational payload as tool_response and the fixed
\* invitation as message, and no tool client method was called.
C20_NoToolResponse ==
    (Done /\ NoToolAnswer) =>
        /\ ~returned[1].raised
        /\ Response.success
        /\ Response.tool_used = "none"
        /\ ~Response.needs_clarification
        /\ Response.tool_response =
               Some([message |-> "I'm here to help! Feel free to ask about concepts, request notes, or practice with flashcards."])
        /\ Response.message = <<"I'm here to help! What would you like to learn about?">>
        /\ calls = <<>>
        /\ \A i \in DOMAIN visited : visited[i] \notin ExecutionNodes

C20_Witness ==
    /\ Done
    /\ NoToolAnswer
    /\ tool_client = "EducationalToolClient"
    /\ extract_result[1].value[1].topic = Some("derivatives")
    /\ extract_result[1].value[1].flashcard_count = Some(MaxFlashcards)
    /\ visited = <<"analyze_message", "validate_parameters", "handle_no_tool",
                   "format_response">>
    /\ Response.success

----------------------------------------------------------------------------
(* The success outcome and the requests of the tools (Spec) *)

\* the one tool call of the request returned a payload
ToolSucceeded == Done /\ call_results # <<>> /\ ~call_results[1].raised

\* the payload the tool client returned
Payload == call_results[1].value[1]

\* C21: after a tool call that succeeded the response has success true,
\* tool_used equal to the tool that was dispatched, extracted_parameters equal
\* to the dump of the extraction result, tool_response equal to the dump of
\* the payload, and the message of the kind: the note maker's names the topic
\* of the payload, the flashcard generator's the number of cards of the payload
\* and its topic, the concept explainer's is a fixed sentence.
C21_SuccessResponse ==
    ToolSucceeded =>
        /\ ~returned[1].raised
        /\ Response.success
        /\ ~Response.needs_clarification
        /\ Response.tool_used = calls[1]
        /\ Response.tool_used = extract_result[1].value[1].tool_needed
        /\ Response.extracted_parameters =
               Some(validate_and_fill_defaults(extract_result[1].value[1],
                                               state.user_info[1]))
        /\ Response.tool_response = Some(Payload)
        /\ Response.tool_used = NOTE_MAKER =>
               Response.message = <<"I've created structured notes on **", Payload.topic,
                                    "** for you! Check out the sections below.">>
        /\ Response.tool_used = FLASHCARD_GENERATOR =>
               Response.message = <<"I've generated **", ToString(Len(Payload.flashcards)),
                                    " flashcards** on ", Payload.topic,
                                    " to help you practice!">>
        /\ Response.tool_used = CONCEPT_EXPLAINER =>
               Response.message = <<"Here's an explanation of the concept you asked about. Let me know if you need more detail!">>

C21_Witness ==
    /\ ToolSucceeded
    /\ tool_client = "MockToolClient"
    /\ calls = <<FLASHCARD_GENERATOR>>
    /\ Len(Payload.flashcards) = MaxFlashcards
    /\ Response.message = <<"I've generated **", "20", " flashcards** on ", "derivatives",
                            " to help you practice!">>

\* an optional string that is unset or empty
Blank(x) == x = None \/ x = Some("")

\* a request was built and its call is in flight
InFlight(tool) == pc = "await_" \o tool

\* C22: the request built for the note maker or the flashcard generator has
\* as subject the extracted subject if that is not blank, else the topic if
\* that is not blank, else "General"; topic, style, count and difficulty are
\* those of the extraction result (subject unset, topic "derivatives", count 5
\* give subject "derivatives" and count 5).
C22_SubjectFallback ==
    (InFlight(NOTE_MAKER) \/ InFlight(FLASHCARD_GENERATOR)) =>
        /\ request[1].subject =
               IF ~Blank(Extracted.subject) THEN Extracted.subject[1]
               ELSE IF ~Blank(Extracted.topic) THEN Extracted.topic[1]
               ELSE "General"
        /\ Some(request[1].topic) = Extracted.topic
        /\ InFlight(NOTE_MAKER) =>
               Some(request[1].note_taking_style) = Extracted.note_taking_style
        /\ InFlight(FLASHCARD_GENERATOR) =>
               /\ Some(request[1].count) = Extracted.flashcard_count
               /\ Some(request[1].difficulty) = Extracted.difficulty

C22_Witness ==
    /\ InFlight(FLASHCARD_GENERATOR)
    /\ Extracted.subject = None
    /\ Extracted.topic = Some("derivatives")
    /\ Extracted.flashcard_count = Some(5)
    /\ Extracted.difficulty = Some("medium")
    /\ request[1].subject = "derivatives"
    /\ request[1].count = 5

\* C23: the request built for the concept explainer has as concept_to_explain
\* the extracted concept if that is not blank, else the topic; as current_topic
\* the extracted subject if that is not blank, else the topic; and the
\* desired_depth of the extraction result.
C23_ConceptRequest ==
    InFlight(CONCEPT_EXPLAINER) =>
        /\ Some(request[1].concept_to_explain) =
               IF ~Blank(Extracted.concept_to_explain)
               THEN Extracted.concept_to_explain ELSE Extracted.topic
        /\ Some(request[1].current_topic) =
               IF ~Blank(Extracted.subject) THEN Extracted.subject ELSE Extracted.topic
        /\ Some(request[1].desired_depth) = Extracted.desired_depth

C23_Witness ==
    /\ InFlight(CONCEPT_EXPLAINER)
    /\ Extracted.concept_to_explain = Some("chain rule")
    /\ Extracted.subject = Some("")
    /\ Extracted.topic = Some("derivatives")
    /\ request[1].concept_to_explain = "chain rule"
    /\ request[1].current_topic = "derivatives"

----------------------------------------------------------------------------
(* format_response run a second time (SpecAgain) *)

\* C24: format_response run again on the final state of a request (error,
\* clarification, tool success or no tool) gives the response of the first
\* run and changes nothing in the state.
C24_FormatResponseIdempotent ==
    [][pc = "END" => (state' = state /\ returned' = returned)]_vars

C24_Witness ==
    /\ pc = "formatted_again"
    /\ state.needs_clarification
    /\ state.clarification_questions = <<TopicQuestion, CountQuestion>>
    /\ state.final_response = returned[1].value
    /\ Response.clarification_questions = <<TopicQuestion, CountQuestion>>

----------------------------------------------------------------------------
(* POST /orchestrate (SpecEndpoint) *)

\* the endpoint has answered
Responded == pc = "responded"

\* the fields of OrchestratorResponse
ResponseFields ==
    {"success", "tool_used", "extracted_parameters", "tool_response", "message",
     "needs_clarification", "clarification_questions"}

\* the text-generation call raised, the request of the tool was rejected, or
\* the tool call raised
PipelineFailure ==
    \/ llm_response[1].kind = "raise"
    \/ ToolCallFailed
    \/ \E i \in DOMAIN visited : visited[i] \in ExecutionNodes /\ calls = <<>>

\* C25: for every request body that passed the schema, POST /orchestrate
\* answers with status 200 and a body of the response shape; a failure inside
\* the pipeline (extraction, tool) is a body with success false in that 200,
\* never another status.
C25_AlwaysStatus200 ==
    Responded =>
        /\ returned[1].status_code = 200
        /\ returned[1].body # None
        /\ DOMAIN returned[1].body[1] = ResponseFields
        /\ returned[1].body = state.final_response
        /\ PipelineFailure => ~returned[1].body[1].success

C25_Witness ==
    /\ Responded
    /\ ToolCallFailed
    /\ returned[1].status_code = 200
    /\ ~returned[1].body[1].success
    /\ ~returned[1].body[1].needs_clarification

----------------------------------------------------------------------------
(* The construction of the FlashcardRequest (SpecUnits) *)

\* execute_flashcard_generator has built its request, or has failed to
Built == pc \in {"await_flashcard_generator", "format_response"}

\* C26: a flashcard request that reaches the flashcard tool has an integer
\* count between 1 and 20 and a difficulty among easy, medium, hard; a count
\* outside 1..20 is rejected when the request is constructed: no request
\* exists, no call is made, and the count is not brought into the range.
C26_CountInRangeOrRejected ==
    /\ InFlight(FLASHCARD_GENERATOR) =>
           /\ request[1].count \in 1..20
           /\ request[1].difficulty \in {"easy", "medium", "hard"}
           /\ Some(request[1].count) = Extracted.flashcard_count
           /\ Some(request[1].difficulty) = Extracted.difficulty
           /\ calls = <<FLASHCARD_GENERATOR>>
    /\ (Built /\ Extracted.flashcard_count \notin {Some(n) : n \in 1..20}) =>
           /\ pc = "format_response"
           /\ request = None
           /\ calls = <<>>
           /\ state.error = Some(<<"Tool execution failed: ",
                                   "validation error for FlashcardRequest">>)

C26_Witness ==
    /\ Built
    /\ Extracted.flashcard_count = Some(25)
    /\ Extracted.difficulty = Some("medium")
    /\ request = None
    /\ calls = <<>>
    /\ state.error # None

----------------------------------------------------------------------------
(* The final state, the extraction result after analysis, and the order of
   the steps (Spec) *)

\* the outcome variants the final state has populated
Populated ==
    {v \in {"error", "clarification", "tool_response"} :
        \/ v = "error" /\ state.error # None
        \/ v = "clarification" /\ state.needs_clarification
        \/ v = "tool_response" /\ state.tool_response # None}

\* C28: in the final state of a request exactly one of these holds: error is
\* set; needs_clarification is true; tool_response is set (by a tool or by the
\* no-tool step). Error and needs_clarification are never both set, and a tool
\* call that failed leaves tool_response unset.
C28_ExactlyOneOutcome ==
    Done =>
        /\ Cardinality(Populated) = 1
        /\ ~(state.error # None /\ state.needs_clarification)
        /\ ToolCallFailed => state.tool_response = None

C28_Witness ==
    /\ Done
    /\ ToolCallFailed
    /\ Populated = {"error"}
    /\ state.tool_response = None
    /\ state.extracted_parameters # None

\* C29: once analyze_message has finished, no step (validate_parameters, the
\* routing, an execute or handle branch, format_response) changes
\* extracted_parameters, message, user_info or chat_history.
C29_ExtractionWrittenOnce ==
    [][PastAnalysis =>
          /\ state'.extracted_parameters = state.extracted_parameters
          /\ state'.message = state.message
          /\ state'.user_info = state.user_info
          /\ state'.chat_history = state.chat_history]_vars

C29_Witness ==
    /\ ToolSucceeded
    /\ calls = <<NOTE_MAKER>>
    /\ Extracted.subject = None
    /\ state.tool_request[1].subject = "derivatives"
    /\ state.extracted_parameters =
           Some(validate_and_fill_defaults(extract_result[1].value[1], state.user_info[1]))
    /\ state.chat_history # <<>>

\* the nodes between validate_parameters and format_response
BranchNodes == ExecutionNodes \cup {"handle_no_tool", "handle_error"}

\* C30: the steps run in the order analyze_message (extraction and
\* default-filling), validate_parameters, at most one branch, format_response;
\* each runs at most once, format_response runs once and last, and when a tool
\* call was dispatched format_response starts only after the call has returned
\* or failed.
C30_StageOrder ==
    /\ Len(visited) <= 4
    /\ \A i, j \in DOMAIN visited : i # j => visited[i] # visited[j]
    /\ Len(visited) >= 1 => visited[1] = "analyze_message"
    /\ Len(visited) >= 2 => visited[2] = "validate_parameters"
    /\ Len(visited) = 3 => visited[3] \in BranchNodes \cup {"format_response"}
    /\ Len(visited) = 4 => visited[3] \in BranchNodes /\ visited[4] = "format_response"
    /\ Done <=> (visited # <<>> /\ visited[Len(visited)] = "format_response")
    /\ (PastAnalysis /\ ExtractReturned) =>
           state.extracted_parameters =
               Some(validate_and_fill_defaults(extract_result[1].value[1],
                                               state.user_info[1]))
    /\ Len(calls) <= 1
    /\ Len(call_results) <= Len(calls)
    /\ (pc = "format_response" \/ Done) => Len(call_results) = Len(calls)

C30_Witness ==
    /\ Done
    /\ visited = <<"analyze_message", "validate_parameters",
                   "execute_concept_explainer", "format_response">>
    /\ Len(calls) = 1
    /\ ToolCallFailed

----------------------------------------------------------------------------
(* Two interleaved runs (SpecConcurrent) *)

\* what run r returns when it runs alone with the inputs it has and with the
\* answers its text-generation call and its tool call got
Alone(r) ==
    orchestrate(RunInputs[r].message, RunInputs[r].user_info, RunInputs[r].chat_history,
                llm_response[r][1], call_results[r])

\* C27: when two orchestrate runs on one orchestrator interleave at their
\* nodes and awaits, each run's final state and response are those of the run
\* alone with the same inputs and the same answers of its collaborators; a run
\* never holds the inputs of the other.
C27_RunsAreIndependent ==
    \A r \in Runs :
        /\ pc[r] # "idle" =>
               /\ state[r].message = RunInputs[r].message
               /\ state[r].user_info = Some(RunInputs[r].user_info)
        /\ pc[r] = "END" =>
               /\ ~Alone(r).raised
               /\ state[r] = Alone(r).value[1]
               /\ returned[r] = Some(Returned(Alone(r).value[1].final_response[1]))

C27_Witness ==
    /\ pc["a"] = "END"
    /\ pc["b"] = "END"
    /\ calls = << [run |-> "a", tool |-> FLASHCARD_GENERATOR, event |-> "called"],
                  [run |-> "b", tool |-> NOTE_MAKER, event |-> "called"],
                  [run |-> "a", tool |-> FLASHCARD_GENERATOR, event |-> "returned"],
                  [run |-> "b", tool |-> NOTE_MAKER, event |-> "returned"] >>
    /\ returned["a"][1].value[1].success
    /\ returned["a"][1].value[1].extracted_parameters[1].difficulty = Some("easy")
    /\ returned["b"][1].value[1].success
    /\ returned["b"][1].value[1].extracted_parameters[1].note_taking_style = Some("outline")

\* no execution node was entered
NoBranchEntered == \A i \in DOMAIN visited : visited[i] \notin ExecutionNodes

\* C31: an execution branch never retries: in one run at most one tool-client
\* call is made, none at all on the clarification, no-tool and extraction-error
\* paths, and a call that failed leaves the error "Tool execution failed: "
\* followed by the text of the exception, with no second call.
C31_NoRetry ==
    /\ Len(calls) <= 1
    /\ Len(call_results) <= Len(calls)
    /\ NoBranchEntered => calls = <<>>
    /\ (PastValidation /\ (state.needs_clarification \/ ~ExtractReturned)) => calls = <<>>
    /\ (PastValidation /\ ExtractReturned /\ Extracted.tool_needed = NONE) => calls = <<>>
    /\ ToolCallFailed
       => /\ Len(calls) = 1
          /\ Len(call_results) = 1
          /\ state.error = Some(<<"Tool execution failed: ">> \o call_results[1].text)
          /\ AtOrPastFormat
    /\ (Done /\ ToolCallFailed)
       => Response.message
              = <<"Sorry, something went wrong: ", "Tool execution failed: ">>
                    \o call_results[1].text

C31_Witness ==
    /\ Done
    /\ ToolCallFailed
    /\ calls = <<FLASHCARD_GENERATOR>>
    /\ call_results[1].text = <<"Flashcard Generator failed: ", "Rate limit exceeded">>
    /\ state.error = Some(<<"Tool execution failed: ", "Flashcard Generator failed: ",
                            "Rate limit exceeded">>)

\* the extraction step raised inside analyze_message
ExtractRaised == extract_result # None /\ extract_result[1].raised

\* C32: when the extraction step raises an exception with text e inside
\* analyze_message, the error text that reaches format_response is
\* "Failed to analyze message: e" and the final message is
\* "Sorry, something went wrong: Failed to analyze message: e".
C32_AnalysisErrorCarried ==
    /\ (ExtractRaised /\ AtOrPastFormat)
       => state.error = Some(<<"Failed to analyze message: ">> \o extract_result[1].text)
    /\ (ExtractRaised /\ Done)
       => Response.message
              = <<"Sorry, something went wrong: ", "Failed to analyze message: ">>
                    \o extract_result[1].text

\* no node of the graph appears twice among the nodes run so far
NoNodeRevisited ==
    \A i, j \in DOMAIN visited : visited[i] = visited[j] => i = j

\* the workflow is at END, final_response is set, and orchestrate has returned it
Terminated ==
    /\ Done
    /\ state.final_response # None
    /\ returned = Some(Returned(state.final_response[1]))

\* a topological order of the positions of a run: a graph whose every edge
\* goes up in it has no cycle
Rank(position) ==
    CASE position = "idle"                -> 0
      [] position = "analyze_message"     -> 1
      [] position = "validate_parameters" -> 2
      [] position \in BranchNodes         -> 3
      [] position \in {"await_" \o t : t \in {NOTE_MAKER, FLASHCARD_GENERATOR, CONCEPT_EXPLAINER}} -> 4
      [] position = "format_response"     -> 5
      [] position = "END"                 -> 6

\* C33: every run terminates: when each external call eventually returns or
\* fails, the workflow eventually reaches END with final_response set; the
\* graph has no cycle (every step goes up in one order of the positions), so
\* no node is run twice.
C33_Terminates ==
    /\ [][Rank(pc') > Rank(pc)]_vars
    /\ []NoNodeRevisited
    /\ <>Terminated

C33_Witness ==
    /\ Terminated
    /\ ToolCallFailed
    /\ visited = <<"analyze_message", "validate_parameters", "execute_note_maker",
                   "format_response">>

----------------------------------------------------------------------------
(* One call of the tool client (SpecClient) *)

\* the answers after which _make_request may try again
Retryable(answer) ==
    \/ answer.kind = "timeout"
    \/ answer.kind = "status" /\ (answer.status = 429 \/ answer.status >= 500)

\* _make_request has ended
Made == call_results # <<>>

LastAnswer == calls[Len(calls)].answer

\* C34: _make_request ends after at most max_retries + 1 POST attempts whatever
\* the answers are: 429, 5xx and timeout answers all use up the one counter
\* (attempt i runs with retry_count = i - 1), an attempt is followed by another
\* only after such an answer and only while retry_count < max_retries, and
\* when the last allowed attempt gets such an answer too, _make_request raises
\* ToolIntegrationError and returns nothing.
C34_BoundedAttempts ==
    /\ Len(calls) <= tool_client.max_retries + 1
    /\ \A i \in DOMAIN calls : calls[i].retry_count = i - 1
    /\ \A i \in DOMAIN calls :
           i < Len(calls)
           => Retryable(calls[i].answer) /\ calls[i].retry_count < tool_client.max_retries
    /\ (pc = "post" /\ calls # <<>>)
       => Retryable(LastAnswer) /\ Len(calls) <= tool_client.max_retries
    /\ (Made /\ Retryable(LastAnswer))
       => /\ Len(calls) = tool_client.max_retries + 1
          /\ call_results[1].raised
          /\ call_results[1].type = "ToolIntegrationError"
          /\ call_results[1].value = None
          /\ call_results[1].text
                 = IF LastAnswer.kind = "timeout" THEN <<"Request timeout after retries">>
                   ELSE IF LastAnswer.status = 429 THEN <<"Rate limit exceeded">>
                   ELSE <<"Server error after retries">>

C34_Witness ==
    /\ Made
    /\ tool_client.max_retries = 3
    /\ Len(calls) = 4
    /\ calls[1].answer.kind = "timeout"
    /\ calls[2].answer.status = 429
    /\ calls[3].answer.status = 503
    /\ calls[4].answer.kind = "timeout"
    /\ call_results[1] = ToolIntegrationError(<<"Request timeout after retries">>)

\* the call_* method has ended
Called == pc = "done"

\* the answers after which no further attempt is allowed: 400, a status below
\* 500 that is neither 200 nor 429, a transport error that is no timeout
Final(answer) ==
    \/ answer.kind = "network"
    \/ answer.kind = "status" /\ answer.status < 500 /\ answer.status \notin {200, 429}

\* C35: a call_* method returns a payload only when the last attempt was
\* answered 200 with a payload of the response schema; a 400, any other status
\* below 500 except 200 and 429, and a transport error that is no timeout end
\* the attempts; and whatever fails, the call_* method raises
\* ToolIntegrationError and nothing else.
C35_PayloadOrToolIntegrationError ==
    /\ (Called /\ ~returned[1].raised)
       => /\ LastAnswer = StatusAnswer(200, "payload")
          /\ returned[1].value = Some("payload")
    /\ (Called /\ LastAnswer # StatusAnswer(200, "payload")) => returned[1].raised
    /\ \A i \in DOMAIN calls : Final(calls[i].answer) => (i = Len(calls) /\ pc # "post")
    /\ (Called /\ returned[1].raised)
       => /\ returned[1].type = "ToolIntegrationError"
          /\ returned[1].value = None
          /\ SubSeq(returned[1].text, 1, 2) = <<ToolTitle(request[1].tool), " failed: ">>

C35_Witness ==
    /\ Called
    /\ request[1].tool = CONCEPT_EXPLAINER
    /\ Len(calls) = 2
    /\ calls[1].answer.status = 500
    /\ LastAnswer = StatusAnswer(200, "other json")
    /\ returned[1] = ToolIntegrationError(<<"Concept Explainer", " failed: ",
                                            "validation error for the response">>)

----------------------------------------------------------------------------
(* The conversation in the prompt and in the requests (SpecUnits) *)

\* a turn as a line of the extraction context
Shown(turn) == <<IF turn.role = "user" THEN "USER" ELSE "ASSISTANT", ": ", turn.content>>

\* the extraction prompt has been built
Prompted == pc = "prompted"

\* C36: the extraction context holds only the 5 most recent turns of the
\* conversation, in their order (all of them when there are 5 or fewer, a
\* placeholder when there are none); the note maker's and the concept
\* explainer's requests carry the whole conversation unchanged, and the
\* flashcard generator's request carries no conversation.
C36_RecentTurnsInContext ==
    /\ Prompted
       => LET turns == state.chat_history
              n == Len(turns)
              k == IF n <= 5 THEN n ELSE 5
              context == request[1].chat_history
          IN  IF n = 0 THEN context = << <<"No previous messages">> >>
              ELSE /\ Len(context) = k
                   /\ \A i \in 1..k : context[i] = Shown(turns[n - k + i])
    /\ (InFlight(NOTE_MAKER) \/ InFlight(CONCEPT_EXPLAINER))
       => request[1].chat_history = state.chat_history
    /\ InFlight(FLASHCARD_GENERATOR) => "chat_history" \notin DOMAIN request[1]

C36_Witness ==
    /\ Prompted
    /\ Len(state.chat_history) = 7
    /\ request[1].chat_history
           = << <<"USER", ": ", "turn 3">>, <<"ASSISTANT", ": ", "turn 4">>,
                <<"USER", ": ", "turn 5">>, <<"ASSISTANT", ": ", "turn 6">>,
                <<"USER", ": ", "turn 7">> >>

----------------------------------------------------------------------------
(* The shape of every response, and the malformed and rejected-request paths
   (Spec) *)

\* C37: every response orchestrate returns satisfies: needs_clarification
\* implies success false and at least one question; success implies
\* needs_clarification false and no question; a tool_used other than "none"
\* implies success and a non-empty tool_response; success false implies
\* tool_used "none" and an empty tool_response.
C37_ResponseShape ==
    Done
    => /\ ~returned[1].raised
       /\ Response.needs_clarification
          => (~Response.success /\ Len(Response.clarification_questions) >= 1)
       /\ Response.success
          => (~Response.needs_clarification /\ Response.clarification_questions = <<>>)
       /\ Response.tool_used # "none"
          => (Response.success /\ Response.tool_response # <<>>)
       /\ ~Response.success
          => (Response.tool_used = "none" /\ Response.tool_response = <<>>)

C37_Witness ==
    /\ Done
    /\ Response.needs_clarification
    /\ ~Response.success
    /\ Response.tool_used = "none"
    /\ Response.tool_response = <<>>
    /\ Len(Response.clarification_questions) = 2
    /\ Extracted.tool_needed = FLASHCARD_GENERATOR

\* C38: when the output of the model is malformed the run ends in the
\* clarification outcome: success false, tool_used "none", needs_clarification
\* true, exactly the one generic question (the missing name "all" has no
\* question of its own), and no tool is called.
C38_MalformedEndsInClarification ==
    (Malformed /\ PastValidation)
    => /\ state.error = None
       /\ state.needs_clarification
       /\ pc \in {"format_response", "END"}
       /\ NoBranchEntered
       /\ calls = <<>>
       /\ Done
          => /\ Response.success = FALSE
             /\ Response.tool_used = "none"
             /\ Response.needs_clarification = TRUE
             /\ Response.clarification_questions
                    = <<"Could you provide more details about what you need?">>

C38_Witness ==
    /\ Malformed
    /\ Done
    /\ llm_response[1].content[1].json
    /\ Extracted.missing_parameters = <<"all">>
    /\ Response.clarification_questions
           = <<"Could you provide more details about what you need?">>

\* an execution node was entered and its request did not pass validation, so
\* the node ended before its call
RequestRejected == ~NoBranchEntered /\ calls = <<>>

\* C39: when the request of a tool fails validation inside an execution node
\* (a topic that is unset although nothing is missing, a concept with neither
\* subject nor topic), the tool is not called, tool_request and tool_response
\* stay unset, and the run ends in the error response instead of raising.
C39_RejectedRequestIsErrorResponse ==
    RequestRejected
    => /\ request = None
       /\ call_results = <<>>
       /\ state.tool_request = None
       /\ state.tool_response = None
       /\ state.error # None
       /\ SubSeq(state.error[1], 1, 1) = <<"Tool execution failed: ">>
       /\ AtOrPastFormat
       /\ Done
          => /\ ~returned[1].raised
             /\ Response.success = FALSE
             /\ Response.tool_used = "none"
             /\ Response.tool_response = <<>>
             /\ Response.message = <<"Sorry, something went wrong: ">> \o state.error[1]

C39_Witness ==
    /\ Done
    /\ RequestRejected
    /\ visited = <<"analyze_message", "validate_parameters", "execute_concept_explainer",
                   "format_response">>
    /\ Extracted.missing_parameters = <<>>
    /\ Extracted.concept_to_explain = Some("chain rule")
    /\ ~Truthy(Extracted.subject)
    /\ ~Truthy(Extracted.topic)
    /\ Response.success = FALSE

----------------------------------------------------------------------------
(* validate_and_fill_defaults applied twice (SpecUnits) *)

\* validate_and_fill_defaults has been applied to its own result
Refilled == pc = "refilled"

\* C40: validate_and_fill_defaults is idempotent: applied to its own result
\* with the same profile it changes nothing, so twice gives the record that
\* once gives.
C40_FillIsIdempotent ==
    [][Filled => (Refilled' /\ state' = state)]_vars

C40_Witness ==
    /\ Refilled
    /\ FillArg.tool_needed = CONCEPT_EXPLAINER
    /\ FillArg.desired_depth = None
    /\ FillResult.desired_depth = Some("advanced")
    /\ FillProfile.mastery_level_summary = <<"L","e","v","e","l"," ","7">>

====
